---- MODULE Spec2Model ----
(***************************************************************************)
(* Trade-data acquisition engine of src/data_miner.py (ComtradeAPI) with   *)
(* the api_cache table of src/database.py (DatabaseManager).               *)
(*                                                                         *)
(* Specifications: Spec (one run of a series call or of the protocol),     *)
(* SpecFetch (direct _make_request calls and the passing of days),         *)
(* SpecStore (the cache store under concurrent callers), SpecSingleton     *)
(* (the singleton accessors), SpecAnalyze (_analyze_protocol_results),     *)
(* SpecResolve (the classification codes of src/utils.py and their use by  *)
(* perform_analysis of src/app.py), SpecClean (clean_hs_code on any        *)
(* string), SpecClassify (extract_commodity_keywords of src/ai_service.py  *)
(* against any behaviour of the classification service), SpecBackend       *)
(* (_make_request against a database that may be unreachable or failing).  *)
(*                                                                         *)
(* Time: `now` counts days; expires_at is a day number.  time.sleep(d) is  *)
(* recorded as an event carrying d in tenths of a second (0.3 s = 3,       *)
(* 0.5 s = 5, 1 s = 10, 2**attempt s = 10 * 2^attempt); a sleep is shorter *)
(* than a day and leaves `now` unchanged.                                  *)
(***************************************************************************)
EXTENDS Integers, Sequences, FiniteSets, TLC

VARIABLES
    cache,      \* api_cache table: cache_key -> row (at most one row per key, UNIQUE)
    now,        \* wall clock, in days
    pc,         \* position of the running execution
    op,         \* the top-level call: name and arguments
    stage,      \* four_request_protocol: request 1..4 being fetched (0 outside)
    ser,        \* running get_export_data / get_import_data: its arguments
    ci,         \* index into major_importers (aggregate scope), 1-based
    yi,         \* index into years, 1-based
    all_data,   \* all_data of the running get_*_data
    result,     \* result["data"] and result["analysis"] of four_request_protocol
    req,        \* frame of the running _make_request
    reqs,       \* history: every _make_request of this execution, in call order
    lastEv,     \* history: last of {external call, sleep} in this execution
    outcome,    \* how the last execution ended: "none", "returned", "raised"
    ret,        \* value returned to the top-level caller
    nAnom,      \* number of requests in which the service deviated from nominal
    nFetch,     \* number of direct _make_request executions started
    nElapse,    \* number of Elapse steps taken
    th,         \* concurrent callers: thread -> frame of its running call
    sh          \* what the threads share: module globals, locks, history

vars == <<cache, now, pc, op, stage, ser, ci, yi, all_data, result, req, reqs,
          lastEv, outcome, ret, nAnom, nFetch, nElapse, th, sh>>

----------------------------------------------------------------------------
(* Bounds of the model *)

MaxAnomalies == 1   \* requests of one behaviour in which the service deviates
MaxFetches == 2     \* direct _make_request executions per behaviour (SpecFetch)
MaxElapse == 1      \* Elapse steps per behaviour (SpecFetch, SpecStore)
MaxClients == 2     \* concurrent callers (SpecStore, SpecSingleton)
MaxStoreOps == 3    \* store operations started per behaviour (SpecStore)
MaxRows == 2        \* rows of a dataset handed to the analyzer (SpecAnalyze)
MaxCandidates == 2  \* items of a candidate list of the classifier (SpecResolve)
MaxCodeLen == 7     \* characters of a code string handed to clean_hs_code (SpecClean)
MaxCalls == 2       \* calls of extract_commodity_keywords on one service (SpecClassify)

(* Program constants *)

max_retries == 3               \* _make_request(max_retries: int = 3)
ttl_days == 30                 \* cache_api_response(..., ttl_days=30)
API_RATE_LIMIT_DELAY == 5      \* 0.5 s
API_RATE_LIMIT_SHORT == 3      \* 0.3 s
API_WAIT_BETWEEN_STAGES == 10  \* 1 s
CurrentYear == 2024            \* datetime.now().year

INDONESIA == "360"

major_importers ==
    << "842", "156", "276", "392", "826", "251", "381", "528",
       "124", "410", "356", "724", "036", "702", "458" >>

----------------------------------------------------------------------------
(* Values *)

NoneCode == "None"      \* Python None passed as semi_finished_hs_code

\* A JSON object body / a Python value returned by _make_request.
\* keys is the set of keys the object carries; isNone marks Python None.
NoneVal == [isNone |-> TRUE, keys |-> {}, count |-> 0, data |-> <<>>]

EmptyObj == [isNone |-> FALSE, keys |-> {}, count |-> 0, data |-> <<>>]

NoData == [isNone |-> FALSE, keys |-> {"count", "data"}, count |-> 0, data |-> <<>>]

\* A row of data['data'].  valueKind tells what the row holds under the key
\* primaryValue: a number ("num"), null ("null"), or no such key ("missing").
Row(reporter, flow_code, hs_code, period, kind) ==
    [reporterCode |-> reporter, flowCode |-> flow_code, cmdCode |-> hs_code,
     period |-> period, valueKind |-> kind,
     primaryValue |-> IF kind = "num" THEN 100 ELSE 0]

OneRow(reporter, flow_code, hs_code, period, kind) ==
    [isNone |-> FALSE, keys |-> {"count", "data"}, count |-> 1,
     data |-> << Row(reporter, flow_code, hs_code, period, kind) >>]

\* The body the service gives for a query when it behaves: one value row.
NominalBody(r) == OneRow(r.reporter, r.flow_code, r.hs_code, r.period, "num")

\* Bodies of a status-200 answer that deviate: {} , no rows, a row whose
\* primaryValue is null, a row with no primaryValue key.
DeviantBodies(r) ==
    { EmptyObj, NoData,
      OneRow(r.reporter, r.flow_code, r.hs_code, r.period, "null"),
      OneRow(r.reporter, r.flow_code, r.hs_code, r.period, "missing") }

\* Python truthiness of a returned value: None and {} are falsy.
Truthy(v) == ~v.isNone /\ v.keys # {}

\* data and 'data' in data and len(data['data']) > 0
HasRows(v) == Truthy(v) /\ "data" \in v.keys /\ Len(v.data) > 0

\* f"{data['data'][0].get('primaryValue', 0):,.2f}" raises TypeError on null
\* (a row without the key formats the default 0)
LogLineRaises(v) ==
    /\ "data" \in v.keys
    /\ Len(v.data) > 0
    /\ v.data[1].valueKind = "null"

\* f"{df['primaryValue'].sum():,.2f}" of the series' closing log line raises
\* KeyError when no row of all_data carries the key primaryValue
TotalLineRaises(rows) ==
    /\ rows # <<>>
    /\ \A i \in DOMAIN rows : rows[i].valueKind = "missing"

----------------------------------------------------------------------------
(* Cache store adapter (database.py) *)

\* cache_key = f"{reporter}_{partner}_{flow_code}_{hs_code}_{period}"
\* (the components hold no underscore, so the tuple is the same key)
CacheKey(reporter, partner, flow_code, hs_code, period) ==
    << reporter, partner, flow_code, hs_code, period >>

\* A JSON document is a tree of nodes: null, number, string, array, object.
\* kids holds the items of an array (name "") or the members of an object.
JNull == [t |-> "null", num |-> 0, str |-> "", kids |-> <<>>]

JNum(n) == [t |-> "number", num |-> n, str |-> "", kids |-> <<>>]

JStr(x) == [t |-> "string", num |-> 0, str |-> x, kids |-> <<>>]

JArr(items) ==
    [t |-> "array", num |-> 0, str |-> "",
     kids |-> [i \in DOMAIN items |-> [name |-> "", node |-> items[i]]]]

JObj(members) == [t |-> "object", num |-> 0, str |-> "", kids |-> members]

JMember(name, node) == [name |-> name, node |-> node]

\* json.dumps of one row: a dict keeps its keys and their order, None
\* becomes null, a key the dict does not have is not written.
RowToJson(row) ==
    JObj(<< JMember("reporterCode", JStr(row.reporterCode)),
            JMember("flowCode", JStr(row.flowCode)),
            JMember("cmdCode", JStr(row.cmdCode)),
            JMember("period", JNum(row.period)) >>
         \o (CASE row.valueKind = "num"  -> << JMember("primaryValue", JNum(row.primaryValue)) >>
               [] row.valueKind = "null" -> << JMember("primaryValue", JNull) >>
               [] OTHER                  -> << >>))

\* json.dumps(response_data)
JsonDumps(v) ==
    IF v.isNone THEN JNull
    ELSE IF v.keys = {} THEN JObj(<< >>)
    ELSE JObj(<< JMember("count", JNum(v.count)),
                 JMember("data", JArr([i \in DOMAIN v.data |-> RowToJson(v.data[i])])) >>)

HasMember(obj, name) == \E i \in DOMAIN obj.kids : obj.kids[i].name = name

\* obj[name] of a parsed object
MemberOf(obj, name) ==
    obj.kids[CHOOSE i \in DOMAIN obj.kids : obj.kids[i].name = name].node

RowFromJson(obj) ==
    [reporterCode |-> MemberOf(obj, "reporterCode").str,
     flowCode |-> MemberOf(obj, "flowCode").str,
     cmdCode |-> MemberOf(obj, "cmdCode").str,
     period |-> MemberOf(obj, "period").num,
     valueKind |-> IF ~HasMember(obj, "primaryValue") THEN "missing"
                   ELSE IF MemberOf(obj, "primaryValue").t = "null" THEN "null"
                   ELSE "num",
     primaryValue |-> IF HasMember(obj, "primaryValue")
                      THEN MemberOf(obj, "primaryValue").num ELSE 0]

JsonLoads_nullAsAbsent(doc) ==
    IF doc.t = "null" THEN NoneVal
    ELSE IF doc.kids = << >> THEN EmptyObj
    ELSE LET items == MemberOf(doc, "data").kids
         IN  [isNone |-> FALSE,
              keys |-> { doc.kids[i].name : i \in DOMAIN doc.kids },
              count |-> MemberOf(doc, "count").num,
              data |-> [i \in DOMAIN items |->
                          [RowFromJson(items[i].node) EXCEPT
                              !.valueKind = IF @ = "null" THEN "missing" ELSE @]]]

\* json.loads(result['response_data'])
JsonLoads(doc) ==
    IF doc.t = "null" THEN NoneVal
    ELSE IF doc.kids = << >> THEN EmptyObj
    ELSE LET items == MemberOf(doc, "data").kids
         IN  [isNone |-> FALSE,
              keys |-> { doc.kids[i].name : i \in DOMAIN doc.kids },
              count |-> MemberOf(doc, "count").num,
              data |-> [i \in DOMAIN items |-> RowFromJson(items[i].node)]]

Unexpired_inclusive(c, key, t) == key \in DOMAIN c /\ c[key].expires_at >= t

\* SELECT * FROM api_cache WHERE cache_key = %s AND expires_at > NOW()
Unexpired(c, key, t) == key \in DOMAIN c /\ c[key].expires_at > t

get_cached_api_response(c, key, t) ==
    IF Unexpired(c, key, t) THEN JsonLoads(c[key].response_data) ELSE NoneVal

cache_api_response_keepFirst(c, key, request_type, hs_code, response_data, ttl, t) ==
    LET row == IF key \in DOMAIN c
               THEN c[key]
               ELSE [request_type |-> request_type, hs_code |-> hs_code,
                     response_data |-> JsonDumps(response_data),
                     created_at |-> t, expires_at |-> t + ttl]
    IN  [k \in DOMAIN c \cup {key} |-> IF k = key THEN row ELSE c[k]]

cache_api_response_keepsExpiry(c, key, request_type, hs_code, response_data, ttl, t) ==
    LET row == IF key \in DOMAIN c
               THEN [c[key] EXCEPT !.response_data = JsonDumps(response_data),
                                   !.created_at = t]
               ELSE [request_type |-> request_type, hs_code |-> hs_code,
                     response_data |-> JsonDumps(response_data),
                     created_at |-> t, expires_at |-> t + ttl]
    IN  [k \in DOMAIN c \cup {key} |-> IF k = key THEN row ELSE c[k]]

\* INSERT ... ON DUPLICATE KEY UPDATE response_data, expires_at, created_at
\* (request_type and hs_code are written by the INSERT only)
cache_api_response(c, key, request_type, hs_code, response_data, ttl, t) ==
    LET row == IF key \in DOMAIN c
               THEN [c[key] EXCEPT !.response_data = JsonDumps(response_data),
                                   !.expires_at = t + ttl,
                                   !.created_at = t]
               ELSE [request_type |-> request_type, hs_code |-> hs_code,
                     response_data |-> JsonDumps(response_data),
                     created_at |-> t, expires_at |-> t + ttl]
    IN  [k \in DOMAIN c \cup {key} |-> IF k = key THEN row ELSE c[k]]

EmptyCache == [k \in {} |-> NoneVal]

----------------------------------------------------------------------------
(* _make_request (data_miner.py:58-155) *)

\* Events of the histories req.log and lastEv.
CallEv == [ev |-> "call", d |-> 0]

SleepEv(d) == [ev |-> "sleep", d |-> d]

Backoff_constant(attempt) == 10

\* wait_time = 2 ** attempt (seconds), here in tenths of a second
Backoff(attempt) == 10 * (2 ^ attempt)

\* request_type = "export" if flow_code == "X" else "import"
RequestType(flow_code) == IF flow_code = "X" THEN "export" ELSE "import"

\* if cached_response:
CacheHit(cached) == Truthy(cached)

StatusClass_any2xx(status) ==
    IF status \in {"200", "204"} THEN "ok" ELSE IF status = "429" THEN "rate" ELSE "other"

StatusClass_cachesRateLimited(status) ==
    IF status \in {"200", "429"} THEN "ok" ELSE "other"

\* if status_code == 200: ... elif status_code == 429: ... else: ...
StatusClass(status) ==
    IF status = "200" THEN "ok" ELSE IF status = "429" THEN "rate" ELSE "other"

RetryAfterError_offByOne(attempt) == attempt < max_retries

\* except RequestException: if attempt < max_retries - 1: sleep, else return None
RetryAfterError(attempt) == attempt < max_retries - 1

\* for attempt in range(max_retries): the loop goes on after attempt
LoopContinues(attempt) == attempt + 1 < max_retries

\* Statuses the service may answer with.
Statuses == {"200", "204", "429", "500"}

\* Inside get_*_data and the protocol the service deviates only on queries
\* about these reporters (Indonesia and the last major importer), in at most
\* MaxAnomalies requests, and it keeps answering a retried request the way it
\* answered the attempt before.  A direct _make_request meets every mix.
FlakyReporters == {INDONESIA, major_importers[Len(major_importers)]}

NoReq ==
    [reporter |-> "", partner |-> "", flow_code |-> "", hs_code |-> "", period |-> 0,
     stage |-> 0, attempt |-> 0, log |-> <<>>, resps |-> <<>>,
     hadEntry |-> FALSE, stored |-> NoneVal, anom |-> FALSE, val |-> NoneVal]

\* An entry of the history reqs: the query, the answers it got, whether it
\* was served from the cache, the rows it returned and the sleep after it.
Done(r, after) ==
    [stage |-> r.stage, reporter |-> r.reporter, flow_code |-> r.flow_code,
     hs_code |-> r.hs_code, period |-> r.period, resps |-> r.resps,
     hit |-> r.resps = <<>>, val |-> r.val, after |-> after]

ReqKey(r) == CacheKey(r.reporter, r.partner, r.flow_code, r.hs_code, r.period)

\* The database behind the DatabaseManager: reachable, unreachable (_connect
\* leaves self.connection = None, database.py:69-71), or reachable with
\* statements that fail with a mysql Error.  Only SpecBackend varies it.
BackendStates == {"connected", "no_connection", "query_fails"}

Backend == IF sh.use = "backend" THEN sh.state ELSE "connected"

\* Lines 81-90: build the key, look the cache up, return on a hit.
\* hadEntry / stored are history: what the store itself held at entry.
\* With self.connection None, self.connection.cursor() raises AttributeError
\* and the finally clause raises UnboundLocalError (database.py:321-344);
\* neither is a mysql Error and line 85 is outside any try.  A failing
\* SELECT is caught: the lookup returns None.
MakeRequestEnter(reporter, flow_code, hs_code, period, stg) ==
    LET key    == CacheKey(reporter, "0", flow_code, hs_code, period)
        cached == IF Backend = "connected"
                  THEN get_cached_api_response(cache, key, now)
                  ELSE NoneVal
        held   == Unexpired(cache, key, now)
        fr     == [NoReq EXCEPT !.reporter = reporter, !.partner = "0",
                                !.flow_code = flow_code, !.hs_code = hs_code,
                                !.period = period, !.stage = stg,
                                !.hadEntry = held,
                                !.stored = IF held
                                           THEN JsonLoads(cache[key].response_data)
                                           ELSE NoneVal]
    IN  IF Backend = "no_connection"
        THEN /\ req' = fr
             /\ pc' = "mr_raise"
        ELSE IF CacheHit(cached)
        THEN /\ req' = [fr EXCEPT !.val = cached]
             /\ pc' = "mr_ret"
        ELSE /\ req' = fr
             /\ pc' = "mr_attempt"

\* The service may deviate in this request.
MayDeviate ==
    \/ op.name = "make_request"
    \/ req.anom
    \/ nAnom < MaxAnomalies /\ req.reporter \in FlakyReporters

\* The answer `kind` may follow the answers this request already got.
\* Inside a series one status stands for those that are neither 200 nor 429.
MayFollow(kind) ==
    IF op.name = "make_request"
    THEN TRUE
    ELSE /\ kind # "204"
         /\ IF req.resps = <<>> THEN TRUE ELSE req.resps[Len(req.resps)] = kind

Deviated ==
    /\ nAnom' = IF req.anom \/ op.name = "make_request" THEN nAnom ELSE nAnom + 1
    /\ UNCHANGED <<nFetch, nElapse>>

\* The exception leaves _make_request and every caller above it.
Raise ==
    /\ pc' = "done"
    /\ outcome' = "raised"
    /\ ret' = NoneVal

\* Status 200 (lines 122-138): log, write the cache, return the body.
\* cache_api_response with self.connection None raises like the lookup does
\* (database.py:272-307), past `except RequestException`; a failing INSERT
\* is caught and the put returns False, which line 129 ignores.
OnSuccess(status, body) ==
    /\ lastEv' = "call"
    /\ IF LogLineRaises(body)
       THEN /\ req' = [req EXCEPT !.log = Append(@, CallEv),
                                  !.resps = Append(@, status),
                                  !.anom = TRUE]
            /\ Raise
            /\ UNCHANGED cache
       ELSE IF Backend = "no_connection"
       THEN /\ req' = [req EXCEPT !.log = Append(@, CallEv),
                                  !.resps = Append(@, status),
                                  !.anom = @ \/ status # "200" \/ body # NominalBody(req)]
            /\ pc' = "mr_raise"
            /\ UNCHANGED <<cache, outcome, ret>>
       ELSE /\ cache' = IF Backend = "connected"
                        THEN cache_api_response(cache, ReqKey(req),
                                                RequestType(req.flow_code), req.hs_code,
                                                body, ttl_days, now)
                        ELSE cache
            /\ req' = [req EXCEPT !.log = Append(@, CallEv),
                                  !.resps = Append(@, status),
                                  !.anom = @ \/ status # "200" \/ body # NominalBody(req),
                                  !.val = body]
            /\ pc' = "mr_ret"
            /\ UNCHANGED <<outcome, ret>>

\* Status 429 (lines 139-143): sleep 2**attempt, then the next attempt;
\* after the last attempt the loop ends and line 155 returns None.
OnRateLimited(status) ==
    /\ lastEv' = "sleep"
    /\ req' = [req EXCEPT !.log = Append(Append(@, CallEv), SleepEv(Backoff(req.attempt))),
                          !.resps = Append(@, status),
                          !.anom = TRUE,
                          !.attempt = @ + 1]
    /\ pc' = IF LoopContinues(req.attempt) THEN "mr_attempt" ELSE "mr_ret"
    /\ UNCHANGED <<cache, outcome, ret>>

\* Any other status (lines 144-146): return None at once.
OnOtherStatus(status) ==
    /\ lastEv' = "call"
    /\ req' = [req EXCEPT !.log = Append(@, CallEv),
                          !.resps = Append(@, status),
                          !.anom = TRUE]
    /\ pc' = "mr_ret"
    /\ UNCHANGED <<cache, outcome, ret>>

\* The bodies that may come with a status: any body with 200, the nominal one
\* with the others (only the 200 branch reads the body).
BodiesFor(status, r) ==
    IF status = "200" THEN {NominalBody(r)} \cup DeviantBodies(r) ELSE {NominalBody(r)}

\* requests.get returns a response (lines 115-146).
AttemptResponse(status, body) ==
    /\ pc = "mr_attempt"
    /\ IF status = "200" /\ body = NominalBody(req)
       THEN UNCHANGED <<nAnom, nFetch, nElapse>>
       ELSE MayDeviate /\ Deviated
    /\ MayFollow(status)
    /\ CASE StatusClass(status) = "ok"   -> OnSuccess(status, body)
         [] StatusClass(status) = "rate" -> OnRateLimited(status)
         [] OTHER                        -> OnOtherStatus(status)
    /\ UNCHANGED <<th, sh, now, op, stage, ser, ci, yi, all_data, result, reqs>>

\* requests.get raises RequestException (lines 148-153).
AttemptTransportError ==
    /\ pc = "mr_attempt"
    /\ MayDeviate /\ Deviated
    /\ MayFollow("exc")
    /\ IF RetryAfterError(req.attempt)
       THEN /\ req' = [req EXCEPT
                         !.log = Append(Append(@, CallEv), SleepEv(Backoff(req.attempt))),
                         !.resps = Append(@, "exc"),
                         !.anom = TRUE,
                         !.attempt = @ + 1]
            /\ lastEv' = "sleep"
            /\ pc' = "mr_attempt"
       ELSE /\ req' = [req EXCEPT !.log = Append(@, CallEv),
                                  !.resps = Append(@, "exc"),
                                  !.anom = TRUE]
            /\ lastEv' = "call"
            /\ pc' = "mr_ret"
    /\ UNCHANGED <<th, sh, cache, now, op, stage, ser, ci, yi, all_data, result, reqs,
                   outcome, ret>>

Attempt ==
    \/ \E status \in Statuses : \E body \in BodiesFor(status, req) :
          AttemptResponse(status, body)
    \/ AttemptTransportError

-----
(* Direct _make_request executions, and the passing of time *)

NoOp == [name |-> "none", reporter_code |-> "", hs |-> <<>>, years |-> <<>>]

NoSer == [fn |-> "none", reporter_code |-> "", hs_code |-> ""]

NoResult == [data |-> [s \in {} |-> <<>>], analysis |-> [done |-> FALSE]]

FetchReporters == {INDONESIA}

FetchFlows == {"X", "M"}

FetchCodes == {"080112"}

FetchPeriods == {2023}

\* The days that pass in one Elapse step: just short of the TTL, or the TTL.
ElapseDays == {ttl_days - 1, ttl_days}

Idle == pc \in {"idle", "done"}

\* No concurrent caller is running.
NoThreads == << >>

NoShared == [use |-> "none"]

CallMakeRequest(reporter, flow_code, hs_code, period) ==
    /\ Idle
    /\ nFetch < MaxFetches
    /\ nFetch' = nFetch + 1
    /\ op' = [NoOp EXCEPT !.name = "make_request", !.reporter_code = reporter,
                          !.hs = <<hs_code>>, !.years = <<period>>]
    /\ MakeRequestEnter(reporter, flow_code, hs_code, period, 0)
    /\ reqs' = <<>>
    /\ lastEv' = "none"
    /\ outcome' = "none"
    /\ ret' = NoneVal
    /\ UNCHANGED <<th, sh, cache, now, stage, ser, ci, yi, all_data, result, nAnom, nElapse>>

ReturnMakeRequest ==
    /\ pc = "mr_ret"
    /\ op.name = "make_request"
    /\ pc' = "done"
    /\ outcome' = "returned"
    /\ ret' = req.val
    /\ reqs' = Append(reqs, Done(req, 0))
    /\ UNCHANGED <<th, sh, cache, now, op, stage, ser, ci, yi, all_data, result, req,
                   lastEv, nAnom, nFetch, nElapse>>

Elapse(d) ==
    /\ Idle
    /\ nElapse < MaxElapse
    /\ nElapse' = nElapse + 1
    /\ now' = now + d
    /\ UNCHANGED <<th, sh, cache, pc, op, stage, ser, ci, yi, all_data, result, req, reqs,
                   lastEv, outcome, ret, nAnom, nFetch>>

InitFetch ==
    /\ cache = EmptyCache
    /\ now = 0
    /\ pc = "idle"
    /\ op = NoOp
    /\ stage = 0
    /\ ser = NoSer
    /\ ci = 1
    /\ yi = 1
    /\ all_data = <<>>
    /\ result = NoResult
    /\ req = NoReq
    /\ reqs = <<>>
    /\ lastEv = "none"
    /\ outcome = "none"
    /\ ret = NoneVal
    /\ nAnom = 0
    /\ nFetch = 0
    /\ nElapse = 0
    /\ th = NoThreads
    /\ sh = NoShared

NextFetch ==
    \/ \E r \in FetchReporters, f \in FetchFlows, c \in FetchCodes, p \in FetchPeriods :
          CallMakeRequest(r, f, c, p)
    \/ Attempt
    \/ ReturnMakeRequest
    \/ \E d \in ElapseDays : Elapse(d)

SpecFetch == InitFetch /\ [][NextFetch]_vars

-----
(* _make_request against a cache backend that may be unavailable *)

\* An exception of the cache adapter leaves _make_request and its caller.
PropagateRaise ==
    /\ pc = "mr_raise"
    /\ Raise
    /\ UNCHANGED <<th, sh, cache, now, op, stage, ser, ci, yi, all_data, result, req,
                   reqs, lastEv, nAnom, nFetch, nElapse>>

\* The database goes away, comes back or starts failing its statements,
\* between two requests or between the lookup and the write of one.
BackendChanges(s) ==
    /\ sh.use = "backend"
    /\ Idle \/ pc = "mr_attempt"
    /\ s # sh.state
    /\ sh' = [sh EXCEPT !.state = s]
    /\ UNCHANGED <<th, cache, now, pc, op, stage, ser, ci, yi, all_data, result, req,
                   reqs, lastEv, outcome, ret, nAnom, nFetch, nElapse>>

InitBackend ==
    /\ cache = EmptyCache
    /\ now = 0
    /\ pc = "idle"
    /\ op = NoOp
    /\ stage = 0
    /\ ser = NoSer
    /\ ci = 1
    /\ yi = 1
    /\ all_data = <<>>
    /\ result = NoResult
    /\ req = NoReq
    /\ reqs = <<>>
    /\ lastEv = "none"
    /\ outcome = "none"
    /\ ret = NoneVal
    /\ nAnom = 0
    /\ nFetch = 0
    /\ nElapse = 0
    /\ th = NoThreads
    /\ \E s \in BackendStates : sh = [use |-> "backend", state |-> s]

NextBackend ==
    \/ \E r \in FetchReporters, f \in FetchFlows, c \in FetchCodes, p \in FetchPeriods :
          CallMakeRequest(r, f, c, p)
    \/ Attempt
    \/ ReturnMakeRequest
    \/ PropagateRaise
    \/ \E s \in BackendStates : BackendChanges(s)

SpecBackend == InitBackend /\ [][NextBackend]_vars

----------------------------------------------------------------------------
(* get_export_data / get_import_data (data_miner.py:157-279) *)

Countries_direct(s) == << s.reporter_code >>

\* The reporters one series queries: major_importers for reporter "all"
\* of get_import_data (lines 223-243), the given reporter otherwise.
Countries(s) ==
    IF s.fn = "import" /\ s.reporter_code = "all"
    THEN major_importers
    ELSE << s.reporter_code >>

\* flow_code="X" in get_export_data, "M" in get_import_data
FlowOf(s) == IF s.fn = "export" THEN "X" ELSE "M"

LoopDelay_onlySingle(s) ==
    IF s.fn = "import" /\ s.reporter_code = "all" THEN 0 ELSE API_RATE_LIMIT_DELAY

\* time.sleep after each request: API_RATE_LIMIT_SHORT in the aggregate loop
\* (line 256), API_RATE_LIMIT_DELAY in the single-reporter loops (191, 271).
LoopDelay(s) ==
    IF s.fn = "import" /\ s.reporter_code = "all"
    THEN API_RATE_LIMIT_SHORT
    ELSE API_RATE_LIMIT_DELAY

YearsToQuery_skipFuture(years) == SelectSeq(years, LAMBDA y : y <= CurrentYear)

\* for year in years: every element of the list is requested (no filter).
YearsToQuery(years) == years

\* The loop indices after one more iteration: years inside, countries outside.
NextIndex(c, y, nYears) ==
    IF y < nYears THEN << c, y + 1 >> ELSE << c + 1, 1 >>

\* all_data.extend(data['data']) when the fragment has rows
Extend(acc, v) == IF HasRows(v) THEN acc \o v.data ELSE acc

StartSeries(s) ==
    /\ ser' = s
    /\ ci' = 1
    /\ yi' = 1
    /\ all_data' = <<>>
    /\ pc' = "loop"

\* Loop head: call _make_request for the next (country, year), or end.
LoopStep ==
    /\ pc = "loop"
    /\ LET ys == YearsToQuery(op.years)
       IN  IF ci > Len(Countries(ser)) \/ Len(ys) = 0
           THEN /\ pc' = "series_end"
                /\ UNCHANGED req
           ELSE MakeRequestEnter(Countries(ser)[ci], FlowOf(ser), ser.hs_code,
                                 ys[yi], stage)
    /\ UNCHANGED <<th, sh, cache, now, op, stage, ser, ci, yi, all_data, result, reqs,
                   lastEv, outcome, ret, nAnom, nFetch, nElapse>>

\* _make_request returned to the loop: extend all_data, sleep, next iteration.
ReturnToLoop ==
    /\ pc = "mr_ret"
    /\ op.name # "make_request"
    /\ all_data' = Extend(all_data, req.val)
    /\ lastEv' = IF LoopDelay(ser) > 0 THEN "sleep" ELSE lastEv
    /\ reqs' = Append(reqs, Done(req, LoopDelay(ser)))
    /\ LET nx == NextIndex(ci, yi, Len(YearsToQuery(op.years)))
       IN  ci' = nx[1] /\ yi' = nx[2]
    /\ pc' = "loop"
    /\ UNCHANGED <<th, sh, cache, now, op, stage, ser, result, req, outcome, ret,
                   nAnom, nFetch, nElapse>>

----------------------------------------------------------------------------
(* four_request_protocol (data_miner.py:281-360) *)

NumStages == 4

StageName(stg) ==
    CASE stg = 1 -> "indonesia_raw_export"
      [] stg = 2 -> "indonesia_semi_export"
      [] stg = 3 -> "indonesia_finished_export"
      [] OTHER   -> "world_finished_import"

StageSeries_swapped(stg, hs) ==
    CASE stg = 1 -> [fn |-> "export", reporter_code |-> INDONESIA, hs_code |-> hs[1]]
      [] stg = 2 -> [fn |-> "export", reporter_code |-> INDONESIA, hs_code |-> hs[3]]
      [] stg = 3 -> [fn |-> "export", reporter_code |-> INDONESIA, hs_code |-> hs[2]]
      [] OTHER   -> [fn |-> "import", reporter_code |-> "all", hs_code |-> hs[3]]

\* The series of request stg: op.hs = <<raw, semi, finished>>.
StageSeries(stg, hs) ==
    CASE stg = 1 -> [fn |-> "export", reporter_code |-> INDONESIA, hs_code |-> hs[1]]
      [] stg = 2 -> [fn |-> "export", reporter_code |-> INDONESIA, hs_code |-> hs[2]]
      [] stg = 3 -> [fn |-> "export", reporter_code |-> INDONESIA, hs_code |-> hs[3]]
      [] OTHER   -> [fn |-> "import", reporter_code |-> "all", hs_code |-> hs[3]]

\* The loop of a series ended (lines 193-199 / 273-279): the closing log line
\* is formatted, the DataFrame of all_data goes to the caller; in the protocol it is stored under the
\* stage's name, the inter-stage sleep follows and the next stage starts.
SeriesEnd ==
    /\ pc = "series_end"
    /\ IF TotalLineRaises(all_data)
       THEN /\ Raise
            /\ UNCHANGED <<result, lastEv, stage, ser, ci, yi, all_data>>
       ELSE IF op.name = "protocol"
       THEN /\ result' = [result EXCEPT !.data =
                            [n \in DOMAIN result.data \cup {StageName(stage)} |->
                               IF n = StageName(stage) THEN all_data ELSE result.data[n]]]
            /\ lastEv' = "sleep"
            /\ IF stage < NumStages
               THEN /\ stage' = stage + 1
                    /\ StartSeries(StageSeries(stage + 1, op.hs))
               ELSE /\ pc' = "analyze"
                    /\ UNCHANGED <<stage, ser, ci, yi, all_data>>
            /\ UNCHANGED <<outcome, ret>>
       ELSE /\ pc' = "done"
            /\ outcome' = "returned"
            /\ ret' = [NoneVal EXCEPT !.isNone = FALSE, !.data = all_data]
            /\ UNCHANGED <<result, lastEv, stage, ser, ci, yi, all_data>>
    /\ UNCHANGED <<th, sh, cache, now, op, req, reqs, nAnom, nFetch, nElapse>>

----------------------------------------------------------------------------
(* _analyze_protocol_results (data_miner.py:362-491) *)

\* A DataFrame is the sequence of its rows; the empty DataFrame is << >>.
PeriodsOf(df) == { df[i].period : i \in DOMAIN df }

\* pandas sums skip missing values
ValueOf(row) == IF row.valueKind = "num" THEN row.primaryValue ELSE 0

RECURSIVE SumValues(_)
SumValues(df) ==
    IF df = <<>> THEN 0 ELSE ValueOf(Head(df)) + SumValues(Tail(df))

RestrictTo_noFilter(df, years) == df

\* df[df['period'].isin(years)]
RECURSIVE RestrictTo(_, _)
RestrictTo(df, years) ==
    IF df = <<>> THEN <<>>
    ELSE IF Head(df).period \in years
         THEN << Head(df) >> \o RestrictTo(Tail(df), years)
         ELSE RestrictTo(Tail(df), years)

RECURSIVE Sorted_descending(_)
Sorted_descending(S) ==
    IF S = {} THEN <<>>
    ELSE LET m == CHOOSE x \in S : \A y \in S : x >= y
         IN  << m >> \o Sorted_descending(S \ {m})

\* sorted(list(S))
RECURSIVE Sorted(_)
Sorted(S) ==
    IF S = {} THEN <<>>
    ELSE LET m == CHOOSE x \in S : \A y \in S : x <= y
         IN  << m >> \o Sorted(S \ {m})

SeqToSet(q) == { q[i] : i \in DOMAIN q }

YearlySum_wholeSeries(df, y) == SumValues(df)

\* df.groupby('period')['primaryValue'].sum() at one period
YearlySum(df, y) == SumValues(RestrictTo(df, {y}))

\* The CAGR ((end_val / start_val) ** (1 / n_years) - 1) * 100 is kept as its
\* operands; zero marks the trend left at its initial 0.
NoTrend == [zero |-> TRUE, start_val |-> 0, end_val |-> 0, n_years |-> 0]

Trend_countYears(df) ==
    LET ys == Sorted(PeriodsOf(df))
    IN  IF Len(df) > 1 /\ Len(ys) > 1 /\ YearlySum(df, ys[1]) > 0
        THEN [zero |-> FALSE,
              start_val |-> YearlySum(df, ys[1]),
              end_val |-> YearlySum(df, ys[Len(ys)]),
              n_years |-> Len(ys)]
        ELSE NoTrend

Trend(df) ==
    LET ys == Sorted(PeriodsOf(df))
    IN  IF Len(df) > 1 /\ Len(ys) > 1 /\ YearlySum(df, ys[1]) > 0
        THEN [zero |-> FALSE,
              start_val |-> YearlySum(df, ys[1]),
              end_val |-> YearlySum(df, ys[Len(ys)]),
              n_years |-> Len(ys) - 1]
        ELSE NoTrend

\* The value of a trend as a fraction num / den of integers:
\* ((end_val / start_val) ** (1 / n_years) - 1) * 100 is
\* (end_val - start_val) * 100 / start_val when n_years = 1; the root of a
\* longer window is not a fraction and is left unevaluated (exact FALSE).
TrendPercent(t) ==
    IF t.zero THEN [exact |-> TRUE, num |-> 0, den |-> 1]
    ELSE IF t.n_years = 1
         THEN [exact |-> TRUE, num |-> (t.end_val - t.start_val) * 100,
               den |-> t.start_val]
         ELSE [exact |-> FALSE, num |-> 0, den |-> 1]

MarketGap_clamped(global_demand_total, finished_export_total) ==
    IF global_demand_total > finished_export_total
    THEN global_demand_total - finished_export_total
    ELSE 0

\* Line 489: global_demand_total - finished_export_total
MarketGap(global_demand_total, finished_export_total) ==
    global_demand_total - finished_export_total

\* 'primaryValue' in df: the column exists when some row carries the key
HasValueColumn(df) == \E i \in DOMAIN df : df[i].valueKind # "missing"

\* df['primaryValue'].sum() if 'primaryValue' in df else 0
GuardedTotal(df) == IF HasValueColumn(df) THEN SumValues(df) ELSE 0

\* The trend block of a stage: used.groupby('period')['primaryValue'] is
\* evaluated when len(used) > 1 and raises KeyError when the column is
\* missing; used is the stage's dataset df or a row selection of it, which
\* keeps the columns of df.
TrendRaises(df, used) == Len(used) > 1 /\ ~HasValueColumn(df)

AlignedTotal_noFallback(df, aligned) ==
    IF df = <<>> \/ aligned = <<>> THEN 0
    ELSE GuardedTotal(RestrictTo(df, SeqToSet(aligned)))

\* Lines 445-464 and 467-486: the total of the finished-export and of the
\* global-demand stage, over the aligned years when there are any and over
\* all rows of the dataset otherwise.
AlignedTotal(df, aligned) ==
    IF df = <<>> THEN 0
    ELSE IF aligned # <<>>
         THEN GuardedTotal(RestrictTo(df, SeqToSet(aligned)))
         ELSE GuardedTotal(df)

\* The trend blocks that raise for the four datasets.
AnalyzeRaises(data) ==
    LET raw      == data["indonesia_raw_export"]
        semi     == data["indonesia_semi_export"]
        fin      == data["indonesia_finished_export"]
        dem      == data["world_finished_import"]
        aligned  == Sorted(PeriodsOf(fin) \cap PeriodsOf(dem))
    IN  \/ TrendRaises(raw, raw)
        \/ TrendRaises(semi, semi)
        \/ aligned # <<>> /\ TrendRaises(fin, RestrictTo(fin, SeqToSet(aligned)))
        \/ aligned # <<>> /\ TrendRaises(dem, RestrictTo(dem, SeqToSet(aligned)))

analyze_protocol_results(data) ==
    LET raw      == data["indonesia_raw_export"]
        semi     == data["indonesia_semi_export"]
        fin      == data["indonesia_finished_export"]
        dem      == data["world_finished_import"]
        fy       == PeriodsOf(fin)
        gy       == PeriodsOf(dem)
        aligned  == Sorted(fy \cap gy)
        finA     == RestrictTo(fin, SeqToSet(aligned))
        demA     == RestrictTo(dem, SeqToSet(aligned))
        finTotal == AlignedTotal(fin, aligned)
        demTotal == AlignedTotal(dem, aligned)
    IN  [done |-> TRUE,
         raw_export_total |-> GuardedTotal(raw),
         raw_export_trend |-> Trend(raw),
         semi_export_total |-> GuardedTotal(semi),
         semi_export_trend |-> Trend(semi),
         finished_export_total |-> finTotal,
         finished_export_trend |-> IF aligned # <<>> THEN Trend(finA) ELSE NoTrend,
         global_demand_total |-> demTotal,
         global_demand_trend |-> IF aligned # <<>> THEN Trend(demA) ELSE NoTrend,
         market_gap |-> MarketGap(demTotal, finTotal),
         aligned_years |-> aligned,
         excluded_years |-> [indonesia_only |-> Sorted(fy \ gy),
                             global_only |-> Sorted(gy \ fy)]]

\* Line 357: the analysis is computed from result["data"]; line 360 returns.
\* An exception of the analyzer is not caught and leaves the protocol.
Analyze ==
    /\ pc = "analyze"
    /\ pc' = "done"
    /\ IF AnalyzeRaises(result.data)
       THEN /\ outcome' = "raised"
            /\ UNCHANGED result
       ELSE /\ outcome' = "returned"
            /\ result' = [result EXCEPT
                             !.analysis = analyze_protocol_results(result.data)]
    /\ UNCHANGED <<th, sh, cache, now, op, stage, ser, ci, yi, all_data, req, reqs, lastEv,
                   ret, nAnom, nFetch, nElapse>>

-----
(* _analyze_protocol_results on its own: any four datasets *)

AnalyzerYears == {2021, 2022, 2023}

AnalyzerKinds == {"num", "null"}

\* A row of a dataset; its value tells its year.
AnalyzerRow(reporter, flow_code, hs_code, period, kind) ==
    [Row(reporter, flow_code, hs_code, period, kind) EXCEPT
        !.primaryValue = IF kind = "num" THEN 100 + 50 * (period - 2021) ELSE 0]

\* The DataFrames of at most MaxRows rows over a set of rows.
Datasets(rows) == UNION { [1..k -> rows] : k \in 0..MaxRows }

FinishedRows ==
    { AnalyzerRow(INDONESIA, "X", "340111", y, k) : y \in AnalyzerYears, k \in AnalyzerKinds }

DemandRows ==
    { AnalyzerRow(major_importers[1], "M", "340111", y, k) :
        y \in AnalyzerYears, k \in AnalyzerKinds }

RawDatasets ==
    { << >>,
      << AnalyzerRow(INDONESIA, "X", "080112", 2023, "num"),
         AnalyzerRow(INDONESIA, "X", "080112", 2021, "num") >>,
      << AnalyzerRow(INDONESIA, "X", "080112", 2021, "missing"),
         AnalyzerRow(INDONESIA, "X", "080112", 2022, "missing") >> }

SemiDatasets ==
    { << >>,
      << AnalyzerRow(INDONESIA, "X", "151311", 2022, "null"),
         AnalyzerRow(INDONESIA, "X", "151311", 2022, "num") >> }

\* four_request_protocol has stored its four datasets (line 357).
InitAnalyze ==
    /\ cache = EmptyCache
    /\ now = 0
    /\ pc = "analyze"
    /\ op = [name |-> "protocol", reporter_code |-> INDONESIA,
             hs |-> <<"080112", "151311", "340111">>, years |-> <<2021, 2022, 2023>>]
    /\ stage = NumStages
    /\ ser = StageSeries(NumStages, op.hs)
    /\ ci = 1
    /\ yi = 1
    /\ all_data = <<>>
    /\ \E raw \in RawDatasets, semi \in SemiDatasets,
          fin \in Datasets(FinishedRows), dem \in Datasets(DemandRows) :
          result = [data |-> [indonesia_raw_export |-> raw,
                              indonesia_semi_export |-> semi,
                              indonesia_finished_export |-> fin,
                              world_finished_import |-> dem],
                    analysis |-> [done |-> FALSE]]
    /\ req = NoReq
    /\ reqs = <<>>
    /\ lastEv = "sleep"
    /\ outcome = "none"
    /\ ret = NoneVal
    /\ nAnom = 0
    /\ nFetch = 0
    /\ nElapse = 0
    /\ th = NoThreads
    /\ sh = NoShared

NextAnalyze == Analyze

SpecAnalyze == InitAnalyze /\ [][NextAnalyze]_vars

----------------------------------------------------------------------------
(* Top-level calls *)

\* No year, one year, and two years out of order with a future one.
YearLists == { <<>>, <<2024>>, <<2025, 2023>> }

ExportCodes == {"080112"}

ImportReporters == {"all", "458"}

\* <<raw, semi, finished>>: distinct codes, an absent semi code, and a semi
\* code equal to the raw one.
ProtocolCodes ==
    { <<"080112", "151311", "340111">>,
      <<"080112", NoneCode, "340111">>,
      <<"080112", "080112", "340111">> }

BeginExecution ==
    /\ pc = "idle"
    /\ reqs' = <<>>
    /\ lastEv' = "none"
    /\ outcome' = "none"
    /\ result' = NoResult
    /\ req' = NoReq
    /\ UNCHANGED <<th, sh, cache, now, ret, nAnom, nFetch, nElapse>>

CallGetExportData(reporter_code, hs_code, years) ==
    /\ BeginExecution
    /\ op' = [name |-> "export", reporter_code |-> reporter_code,
              hs |-> <<hs_code>>, years |-> years]
    /\ stage' = 0
    /\ StartSeries([fn |-> "export", reporter_code |-> reporter_code,
                    hs_code |-> hs_code])

CallGetImportData(reporter_code, hs_code, years) ==
    /\ BeginExecution
    /\ op' = [name |-> "import", reporter_code |-> reporter_code,
              hs |-> <<hs_code>>, years |-> years]
    /\ stage' = 0
    /\ StartSeries([fn |-> "import", reporter_code |-> reporter_code,
                    hs_code |-> hs_code])

CallFourRequestProtocol(hs, years) ==
    /\ BeginExecution
    /\ op' = [name |-> "protocol", reporter_code |-> INDONESIA,
              hs |-> hs, years |-> years]
    /\ stage' = 1
    /\ StartSeries(StageSeries(1, hs))

Init ==
    /\ cache = EmptyCache
    /\ now = 0
    /\ pc = "idle"
    /\ op = NoOp
    /\ stage = 0
    /\ ser = NoSer
    /\ ci = 1
    /\ yi = 1
    /\ all_data = <<>>
    /\ result = NoResult
    /\ req = NoReq
    /\ reqs = <<>>
    /\ lastEv = "none"
    /\ outcome = "none"
    /\ ret = NoneVal
    /\ nAnom = 0
    /\ nFetch = 0
    /\ nElapse = 0
    /\ th = NoThreads
    /\ sh = NoShared

Next ==
    \/ \E c \in ExportCodes, ys \in YearLists : CallGetExportData(INDONESIA, c, ys)
    \/ \E r \in ImportReporters, ys \in YearLists : CallGetImportData(r, "340111", ys)
    \/ \E hs \in ProtocolCodes, ys \in YearLists : CallFourRequestProtocol(hs, ys)
    \/ LoopStep
    \/ Attempt
    \/ ReturnToLoop
    \/ SeriesEnd
    \/ Analyze

Spec == Init /\ [][Next]_vars

----------------------------------------------------------------------------
(* The cache store under concurrent callers (database.py:249-344) *)

\* The top-level analyses that use the store at the same time.
Clients == 1..MaxClients

StoreKeys ==
    { CacheKey(INDONESIA, "0", "X", "080112", 2023),
      CacheKey(INDONESIA, "0", "M", "080112", 2023) }

\* The payloads a caller may put under a key: a response.json() value.
\* The import key takes one payload only: it is there to show that a put
\* leaves the entries of other keys alone.
StorePayloads(key) ==
    IF key[3] = "X"
    THEN { EmptyObj,
           OneRow(key[1], key[3], key[4], key[5], "num"),
           OneRow(key[1], key[3], key[4], key[5], "null"),
           OneRow(key[1], key[3], key[4], key[5], "missing") }
    ELSE { OneRow(key[1], key[3], key[4], key[5], "num") }

\* A caller outside the store.
IdleFrame == [pc |-> "idle", key |-> << >>, val |-> NoneVal]

\* A completed store operation (history).
\* had: the table held a row for the key when the statement ran.
NoStoreOp == [op |-> "none", key |-> << >>, val |-> NoneVal, at |-> 0, had |-> FALSE]

StoreOp(kind, key, val) ==
    [op |-> kind, key |-> key, val |-> val, at |-> now, had |-> key \in DOMAIN cache]

\* get_cached_api_response (lines 321-334): one SELECT, then json.loads.
StoreGet(c, key) ==
    /\ th[c].pc = "idle"
    /\ sh.nOps < MaxStoreOps
    /\ sh' = [sh EXCEPT !.nOps = @ + 1,
                        !.last = StoreOp("get", key,
                                         get_cached_api_response(cache, key, now))]
    /\ UNCHANGED <<th, cache, now, pc, op, stage, ser, ci, yi, all_data, result, req,
                   reqs, lastEv, outcome, ret, nAnom, nFetch, nElapse>>

\* cache_api_response up to the statement (lines 276-296): the caller has
\* built the values of its INSERT.
PutPrepare(c, key, payload) ==
    /\ th[c].pc = "idle"
    /\ sh.nOps < MaxStoreOps
    /\ th' = [th EXCEPT ![c] = [pc |-> "prepared", key |-> key, val |-> payload]]
    /\ sh' = [sh EXCEPT !.nOps = @ + 1]
    /\ UNCHANGED <<cache, now, pc, op, stage, ser, ci, yi, all_data, result, req,
                   reqs, lastEv, outcome, ret, nAnom, nFetch, nElapse>>

\* cursor.execute and commit (lines 298-302): the statement is one atomic
\* step of the database.
PutExecute(c) ==
    /\ th[c].pc = "prepared"
    /\ cache' = cache_api_response(cache, th[c].key, RequestType(th[c].key[3]),
                                    th[c].key[4], th[c].val, ttl_days, now)
    /\ th' = [th EXCEPT ![c] = IdleFrame]
    /\ sh' = [sh EXCEPT !.last = StoreOp("put", th[c].key, th[c].val)]
    /\ UNCHANGED <<now, pc, op, stage, ser, ci, yi, all_data, result, req,
                   reqs, lastEv, outcome, ret, nAnom, nFetch, nElapse>>

\* Between store operations an entry ages to its last day.
StoreElapseDays == {ttl_days - 1}

\* Days pass while no statement is under way.
StoreElapse(d) ==
    /\ \A c \in Clients : th[c].pc = "idle"
    /\ Elapse(d)

InitStore ==
    /\ cache = EmptyCache
    /\ now = 0
    /\ pc = "idle"
    /\ op = NoOp
    /\ stage = 0
    /\ ser = NoSer
    /\ ci = 1
    /\ yi = 1
    /\ all_data = <<>>
    /\ result = NoResult
    /\ req = NoReq
    /\ reqs = <<>>
    /\ lastEv = "none"
    /\ outcome = "none"
    /\ ret = NoneVal
    /\ nAnom = 0
    /\ nFetch = 0
    /\ nElapse = 0
    /\ th = [c \in Clients |-> IdleFrame]
    /\ sh = [use |-> "store", nOps |-> 0, last |-> NoStoreOp]

NextStore ==
    \/ \E c \in Clients, key \in StoreKeys : StoreGet(c, key)
    \/ \E c \in Clients, key \in StoreKeys : \E payload \in StorePayloads(key) :
          PutPrepare(c, key, payload)
    \/ \E c \in Clients : PutExecute(c)
    \/ \E d \in StoreElapseDays : StoreElapse(d)

SpecStore == InitStore /\ [][NextStore]_vars

----------------------------------------------------------------------------
(* Singleton accessors: get_comtrade_api (data_miner.py:494-513),
   get_db_manager (database.py:444-467), get_gemini_service
   (ai_service.py:430-448) *)

Accessors == {"get_comtrade_api", "get_db_manager", "get_gemini_service"}

\* The module global holds None (0) or the instance with this number.
NoInstance == 0

\* A thread about to call the accessor for the first time.
StartFrame == [pc |-> "start", val |-> NoInstance, sawNone |-> FALSE]

SecondCheck_always(instance) == TRUE

\* if _comtrade_api is None:  (inside the lock, the double check)
SecondCheck(instance) == instance = NoInstance

SingletonUnchanged ==
    UNCHANGED <<cache, now, pc, op, stage, ser, ci, yi, all_data, result, req, reqs,
                lastEv, outcome, ret, nAnom, nFetch, nElapse>>

\* if _comtrade_api is None:  (outside the lock)
FirstCheck(t) ==
    /\ th[t].pc = "start"
    /\ th' = [th EXCEPT ![t] =
                 IF sh.instance = NoInstance
                 THEN [@ EXCEPT !.pc = "acquire", !.sawNone = TRUE]
                 ELSE [@ EXCEPT !.pc = "return"]]
    /\ UNCHANGED sh
    /\ SingletonUnchanged

\* with _comtrade_lock:  (blocks while another thread holds the lock)
Acquire(t) ==
    /\ th[t].pc = "acquire"
    /\ sh.lock = 0
    /\ sh' = [sh EXCEPT !.lock = t]
    /\ th' = [th EXCEPT ![t].pc = "check2"]
    /\ SingletonUnchanged

CheckAgain(t) ==
    /\ th[t].pc = "check2"
    /\ th' = [th EXCEPT ![t].pc =
                 IF SecondCheck(sh.instance) THEN "construct" ELSE "release"]
    /\ UNCHANGED sh
    /\ SingletonUnchanged

\* The constructor runs and the global is assigned.  get_db_manager goes on
\* to initialize_schema, the other accessors leave the with block.
\* DatabaseManager() returns also when the database is unreachable: _connect
\* catches the mysql Error and leaves self.connection = None
\* (database.py:57-71).
Construct(t) ==
    /\ th[t].pc = "construct"
    /\ sh' = [sh EXCEPT !.built = @ + 1, !.instance = sh.built + 1]
    /\ th' = [th EXCEPT ![t].pc =
                 IF sh.accessor = "get_db_manager" THEN "schema" ELSE "release"]
    /\ SingletonUnchanged

\* The constructor raises: the with block releases the lock; get_db_manager
\* catches the exception and returns None, the others let it propagate.
ConstructRaises(t) ==
    /\ th[t].pc = "construct"
    /\ sh' = [sh EXCEPT !.lock = 0, !.failed = TRUE]
    /\ th' = [th EXCEPT ![t].pc =
                 IF sh.accessor = "get_db_manager" THEN "returned" ELSE "raised"]
    /\ SingletonUnchanged

\* _db_manager.initialize_schema() returns: True, or False when there is no
\* connection (database.py:90-94) or a statement fails.
InitializeSchema(t) ==
    /\ th[t].pc = "schema"
    /\ th' = [th EXCEPT ![t].pc = "release"]
    /\ UNCHANGED sh
    /\ SingletonUnchanged

\* _db_manager.initialize_schema() raises: except Exception: return None,
\* with the global already assigned.  Without a connection it returns False
\* before any statement, so it raises only with one (the connection dropping
\* under self.connection.cursor(), then cursor.close() in the finally).
InitializeSchemaRaises(t) ==
    /\ th[t].pc = "schema"
    /\ sh.connected
    /\ sh' = [sh EXCEPT !.lock = 0, !.failed = TRUE]
    /\ th' = [th EXCEPT ![t].pc = "returned"]
    /\ SingletonUnchanged

\* End of the with block.
Release(t) ==
    /\ th[t].pc = "release"
    /\ sh' = [sh EXCEPT !.lock = 0]
    /\ th' = [th EXCEPT ![t].pc = "return"]
    /\ SingletonUnchanged

\* return _comtrade_api
ReturnInstance(t) ==
    /\ th[t].pc = "return"
    /\ th' = [th EXCEPT ![t] = [@ EXCEPT !.pc = "returned", !.val = sh.instance]]
    /\ UNCHANGED sh
    /\ SingletonUnchanged

InitSingleton ==
    /\ cache = EmptyCache
    /\ now = 0
    /\ pc = "idle"
    /\ op = NoOp
    /\ stage = 0
    /\ ser = NoSer
    /\ ci = 1
    /\ yi = 1
    /\ all_data = <<>>
    /\ result = NoResult
    /\ req = NoReq
    /\ reqs = <<>>
    /\ lastEv = "none"
    /\ outcome = "none"
    /\ ret = NoneVal
    /\ nAnom = 0
    /\ nFetch = 0
    /\ nElapse = 0
    /\ th = [t \in Clients |-> StartFrame]
    /\ \E a \in Accessors, connected \in BOOLEAN :
          /\ a # "get_db_manager" => connected
          /\ sh = [use |-> "singleton", accessor |-> a, instance |-> NoInstance,
                   lock |-> 0, built |-> 0, failed |-> FALSE,
                   connected |-> connected]

NextSingleton ==
    \E t \in Clients :
        \/ FirstCheck(t)
        \/ Acquire(t)
        \/ CheckAgain(t)
        \/ Construct(t)
        \/ ConstructRaises(t)
        \/ InitializeSchema(t)
        \/ InitializeSchemaRaises(t)
        \/ Release(t)
        \/ ReturnInstance(t)

SpecSingleton == InitSingleton /\ [][NextSingleton]_vars

----------------------------------------------------------------------------
(* Classification codes (utils.py) and their use by perform_analysis (app.py) *)

\* A Python str is the sequence of its characters; None is the empty
\* sequence, which no cleaned code equals (a cleaned code has 6 digits).
NoCode == << >>

DigitChars == {"0", "1", "2", "3", "4", "5", "6", "7", "8", "9"}

\* str.strip()
RECURSIVE Strip(_)
Strip(str) ==
    IF str = << >> THEN << >>
    ELSE IF Head(str) = " " THEN Strip(Tail(str))
    ELSE IF str[Len(str)] = " " THEN Strip(SubSeq(str, 1, Len(str) - 1))
    ELSE str

\* code_str.replace(".", "")
RemoveDots(str) == SelectSeq(str, LAMBDA ch : ch # ".")

RemoveNonDigits_keepsSpaces(str) ==
    SelectSeq(str, LAMBDA ch : ch \in DigitChars \cup {" "})

\* re.sub(r'[^0-9]', '', code_str)
RemoveNonDigits(str) == SelectSeq(str, LAMBDA ch : ch \in DigitChars)

\* code_str.ljust(width, fill)
RECURSIVE Ljust(_, _, _)
Ljust(str, width, fill) ==
    IF Len(str) >= width THEN str ELSE Ljust(str \o << fill >>, width, fill)

\* str.isdigit()
IsDigit(str) == str # << >> /\ \A i \in DOMAIN str : str[i] \in DigitChars

clean_hs_code_keepsEmpty(raw_code) ==
    LET digits == RemoveNonDigits(RemoveDots(Strip(raw_code)))
    IN  Ljust(IF Len(digits) > 6 THEN SubSeq(digits, 1, 6) ELSE digits, 6, "0")

clean_hs_code_dropsLeadingDigit(raw_code) ==
    LET digits == RemoveNonDigits(RemoveDots(Strip(raw_code)))
        rest   == IF digits = << >> THEN << >> ELSE Tail(digits)
    IN  IF digits = << >> THEN NoCode
        ELSE Ljust(IF Len(rest) > 6 THEN SubSeq(rest, 1, 6) ELSE rest, 6, "0")

clean_hs_code(raw_code) ==
    IF raw_code = << >> THEN NoCode
    ELSE LET digits == RemoveNonDigits(RemoveDots(Strip(raw_code)))
             first6 == IF Len(digits) > 6 THEN SubSeq(digits, 1, 6) ELSE digits
             padded == IF Len(first6) < 6 THEN Ljust(first6, 6, "0") ELSE first6
         IN  IF digits = << >> THEN NoCode
             ELSE IF ~IsDigit(padded) \/ Len(padded) # 6 THEN NoCode
             ELSE padded

\* An item of a candidate list: a dict {"code": ..., "description": ...} or
\* a plain string.
DictItem(code) == [isDict |-> TRUE, code |-> code]

StrItem(code) == [isDict |-> FALSE, code |-> code]

\* item.get('code', '') of a dict, str(item) otherwise
RawCodeOf(item) == item.code

stages_reversed == << "finished", "semi", "raw" >>

stages == << "raw", "semi", "finished" >>

StageSet == {"raw", "semi", "finished"}

stage_key_map ==
    [st \in StageSet |->
        CASE st = "raw" -> "raw_hs_codes"
          [] st = "semi" -> "semi_hs_codes"
          [] st = "finished" -> "finished_hs_codes"]

\* ai_result.get(key, [])
GetList(ai_result, key) ==
    IF key \in DOMAIN ai_result THEN ai_result[key] ELSE << >>

CleanAll_keepsDuplicates(items, cleaned_codes) ==
    SelectSeq([i \in DOMAIN items |-> clean_hs_code(RawCodeOf(items[i]))],
              LAMBDA code : code # NoCode)

\* The loop of extract_hs_codes_from_ai: the cleaned codes of the items in
\* their order, without None and without repetitions.
RECURSIVE CleanAll(_, _)
CleanAll(items, cleaned_codes) ==
    IF items = << >> THEN cleaned_codes
    ELSE LET cleaned == clean_hs_code(RawCodeOf(Head(items)))
         IN  IF cleaned # NoCode /\ \A i \in DOMAIN cleaned_codes : cleaned_codes[i] # cleaned
             THEN CleanAll(Tail(items), Append(cleaned_codes, cleaned))
             ELSE CleanAll(Tail(items), cleaned_codes)

\* key = stage_key_map.get(stage); an unknown stage gives the empty list
extract_hs_codes_from_ai(ai_result, st) ==
    IF st \notin DOMAIN stage_key_map THEN << >>
    ELSE CleanAll(GetList(ai_result, stage_key_map[st]), << >>)

\* codes[0] if codes else None
get_best_hs_code(ai_result, st) ==
    LET codes == extract_hs_codes_from_ai(ai_result, st)
    IN  IF codes # << >> THEN codes[1] ELSE NoCode

SelectCode_first(codes, used_codes) == codes[1]

\* Lines 155-160: the first code that is not in used_codes, None if all are.
RECURSIVE SelectCode(_, _)
SelectCode(codes, used_codes) ==
    IF codes = << >> THEN NoCode
    ELSE IF Head(codes) \notin used_codes THEN Head(codes)
    ELSE SelectCode(Tail(codes), used_codes)

FallbackCode_none(codes) == NoCode

\* Lines 164-166: selected_code = codes[0]
FallbackCode(codes) == codes[1]

\* The locals of select_hs_codes_with_conflict_resolution before its loop.
ResolverStart ==
    [result |-> [st \in StageSet |-> NoCode], used_codes |-> {}]

\* One iteration of the loop over stages (lines 148-169).
ResolveStage(frame, ai_result, st) ==
    LET codes         == extract_hs_codes_from_ai(ai_result, st)
        selected_code == SelectCode(codes, frame.used_codes)
    IN  IF codes = << >> THEN frame
        ELSE IF selected_code # NoCode
             THEN [result |-> [frame.result EXCEPT ![st] = selected_code],
                   used_codes |-> frame.used_codes \cup {selected_code}]
             ELSE [result |-> [frame.result EXCEPT ![st] = FallbackCode(codes)],
                   used_codes |-> frame.used_codes]

RECURSIVE ResolveFrom(_, _, _)
ResolveFrom(frame, ai_result, i) ==
    IF i > Len(stages) THEN frame
    ELSE ResolveFrom(ResolveStage(frame, ai_result, stages[i]), ai_result, i + 1)

select_hs_codes_with_conflict_resolution(ai_result) ==
    ResolveFrom(ResolverStart, ai_result, 1).result

\* Candidate items the classifier may list for a stage.
RawItems ==
    { DictItem(<< "0", "8", "0", "1", ".", "1", "2" >>),
      DictItem(<< "0", "8", "0", "1", ".", "1", "9" >>),
      DictItem(<< "N", "/", "A" >>) }

SemiItems ==
    { DictItem(<< "0", "8", "0", "1", ".", "1", "2" >>),
      DictItem(<< "1", "5", "1", "3", ".", "1", "1" >>),
      StrItem(<< " ", "0", "8", "0", "1", "1", "2" >>) }

FinishedItems ==
    { DictItem(<< "3", "4", "0", "1", ".", "1", "1" >>),
      DictItem(<< "1", "5", "1", "3", ".", "1", "1", ".", "0", "0" >>),
      StrItem(<< "0", "8", "0", "1" >>) }

\* The lists of at most MaxCandidates items.
CandidateLists(items) == UNION { [1..k -> items] : k \in 0..MaxCandidates }

\* A key of the classifier's answer: absent, or present with a list.
KeyChoices(items) ==
    { [present |-> FALSE, list |-> << >>] }
        \cup { [present |-> TRUE, list |-> l] : l \in CandidateLists(items) }

AiResult(raw, semi, finished) ==
    LET choice == [k \in {"raw_hs_codes", "semi_hs_codes", "finished_hs_codes"} |->
                      CASE k = "raw_hs_codes" -> raw
                        [] k = "semi_hs_codes" -> semi
                        [] k = "finished_hs_codes" -> finished]
    IN  [k \in { x \in DOMAIN choice : choice[x].present } |-> choice[k].list]

NoHandedCodes == << >>

\* select_hs_codes_with_conflict_resolution(ai_result) is called.
CallResolver ==
    /\ sh.pc = "idle"
    /\ sh' = [sh EXCEPT !.pc = "loop", !.i = 1, !.frame = ResolverStart]
    /\ UNCHANGED <<th, cache, now, pc, op, stage, ser, ci, yi, all_data, result, req,
                   reqs, lastEv, outcome, ret, nAnom, nFetch, nElapse>>

\* One iteration of its loop.
ResolverLoop ==
    /\ sh.pc = "loop"
    /\ sh.i <= Len(stages)
    /\ sh' = [sh EXCEPT !.i = sh.i + 1,
                        !.frame = ResolveStage(sh.frame, sh.ai_result, stages[sh.i])]
    /\ UNCHANGED <<th, cache, now, pc, op, stage, ser, ci, yi, all_data, result, req,
                   reqs, lastEv, outcome, ret, nAnom, nFetch, nElapse>>

\* return result
ResolverReturn ==
    /\ sh.pc = "loop"
    /\ sh.i > Len(stages)
    /\ sh' = [sh EXCEPT !.pc = "resolved"]
    /\ UNCHANGED <<th, cache, now, pc, op, stage, ser, ci, yi, all_data, result, req,
                   reqs, lastEv, outcome, ret, nAnom, nFetch, nElapse>>

\* The stages a caller may ask extract_hs_codes_from_ai for; "byproduct" is
\* none of the keys of stage_key_map.
AskedStages == StageSet \cup {"byproduct"}

\* extract_hs_codes_from_ai(ai_result, stage) and get_best_hs_code(ai_result,
\* stage) are called.
ExtractCodes(st) ==
    /\ sh.pc = "idle"
    /\ sh' = [sh EXCEPT !.pc = "extracted", !.asked = st,
                        !.codes = extract_hs_codes_from_ai(sh.ai_result, st),
                        !.best = get_best_hs_code(sh.ai_result, st)]
    /\ UNCHANGED <<th, cache, now, pc, op, stage, ser, ci, yi, all_data, result, req,
                   reqs, lastEv, outcome, ret, nAnom, nFetch, nElapse>>

MandatoryMissing_rawOnly(raw_hs_code, finished_hs_code) == raw_hs_code = NoCode

\* app.py:193-199: `if not raw_hs_code` / `if not finished_hs_code`
MandatoryMissing(raw_hs_code, finished_hs_code) ==
    raw_hs_code = NoCode \/ finished_hs_code = NoCode

\* perform_analysis up to the call of four_request_protocol (app.py:140-247).
\* db tells whether get_db_manager gave an instance, cached whether
\* commodity_searches holds a row for the input; such a row carries the
\* codes it was stored with.  With no row the three codes are taken with
\* get_best_hs_code; without a raw or a finished code st.error is shown and
\* the function returns.  With an instance, line 240 calls
\* cache_commodity_search with four arguments where its signature
\* (database.py:157-164) has five required ones: the TypeError is caught by
\* the except branch of line 315, which shows st.error.
PerformAnalysis(db, cached) ==
    /\ sh.pc = "idle"
    /\ LET raw_hs_code      == get_best_hs_code(sh.ai_result, "raw")
           semi_hs_code     == get_best_hs_code(sh.ai_result, "semi")
           finished_hs_code == get_best_hs_code(sh.ai_result, "finished")
           started          == [sh EXCEPT !.db = db, !.cached = cached]
           handed           == [started EXCEPT
                                  !.pc = "handed",
                                  !.protocol_calls = @ + 1,
                                  !.handed = << raw_hs_code, semi_hs_code,
                                                finished_hs_code >>]
       IN  /\ cached => db /\ ~MandatoryMissing(raw_hs_code, finished_hs_code)
           /\ IF cached
              THEN sh' = handed
              ELSE IF MandatoryMissing(raw_hs_code, finished_hs_code)
              THEN sh' = [started EXCEPT !.pc = "stopped", !.st_error = TRUE]
              ELSE IF db
              THEN sh' = [started EXCEPT !.pc = "error", !.st_error = TRUE]
              ELSE sh' = handed
    /\ UNCHANGED <<th, cache, now, pc, op, stage, ser, ci, yi, all_data, result, req,
                   reqs, lastEv, outcome, ret, nAnom, nFetch, nElapse>>

\* app.py:247-313: the protocol, the recommendation, the summary and the
\* saving of the result return, and analysis_complete is set.
CompleteAnalysis ==
    /\ sh.pc = "handed"
    /\ sh' = [sh EXCEPT !.pc = "complete", !.analysis_complete = TRUE]
    /\ UNCHANGED <<th, cache, now, pc, op, stage, ser, ci, yi, all_data, result, req,
                   reqs, lastEv, outcome, ret, nAnom, nFetch, nElapse>>

\* One of them raises: the except branch of line 315 shows st.error.
AnalysisFails ==
    /\ sh.pc = "handed"
    /\ sh' = [sh EXCEPT !.pc = "error", !.st_error = TRUE, !.collaborator_failed = TRUE]
    /\ UNCHANGED <<th, cache, now, pc, op, stage, ser, ci, yi, all_data, result, req,
                   reqs, lastEv, outcome, ret, nAnom, nFetch, nElapse>>

InitResolve ==
    /\ cache = EmptyCache
    /\ now = 0
    /\ pc = "idle"
    /\ op = NoOp
    /\ stage = 0
    /\ ser = NoSer
    /\ ci = 1
    /\ yi = 1
    /\ all_data = <<>>
    /\ result = NoResult
    /\ req = NoReq
    /\ reqs = <<>>
    /\ lastEv = "none"
    /\ outcome = "none"
    /\ ret = NoneVal
    /\ nAnom = 0
    /\ nFetch = 0
    /\ nElapse = 0
    /\ th = NoThreads
    /\ \E raw \in KeyChoices(RawItems), semi \in KeyChoices(SemiItems),
          finished \in KeyChoices(FinishedItems) :
          sh = [use |-> "codes", ai_result |-> AiResult(raw, semi, finished),
                pc |-> "idle", i |-> 0, frame |-> ResolverStart,
                asked |-> "", codes |-> << >>, best |-> NoCode,
                db |-> FALSE, cached |-> FALSE, handed |-> NoHandedCodes,
                protocol_calls |-> 0, st_error |-> FALSE,
                collaborator_failed |-> FALSE, analysis_complete |-> FALSE]

NextResolve ==
    \/ CallResolver
    \/ ResolverLoop
    \/ ResolverReturn
    \/ \E st \in AskedStages : ExtractCodes(st)
    \/ \E db \in BOOLEAN, cached \in BOOLEAN : PerformAnalysis(db, cached)
    \/ CompleteAnalysis
    \/ AnalysisFails

SpecResolve == InitResolve /\ [][NextResolve]_vars

-----
(* clean_hs_code on its own: any string of dots, spaces and digits *)

CodeChars == {"0", "7", ".", " "}

\* The strings of at most MaxCodeLen characters; the empty one also stands
\* for None (both are falsy at line 35).
CodeStrings == UNION { [1..k -> CodeChars] : k \in 0..MaxCodeLen }

\* clean_hs_code(raw_code) is called.
CleanCode ==
    /\ sh.pc = "start"
    /\ sh' = [sh EXCEPT !.pc = "cleaned", !.cleaned = clean_hs_code(sh.raw_code)]
    /\ UNCHANGED <<th, cache, now, pc, op, stage, ser, ci, yi, all_data, result, req,
                   reqs, lastEv, outcome, ret, nAnom, nFetch, nElapse>>

\* clean_hs_code is called with the code it returned.
CleanAgain ==
    /\ sh.pc = "cleaned"
    /\ sh.cleaned # NoCode
    /\ sh' = [sh EXCEPT !.pc = "twice", !.again = clean_hs_code(sh.cleaned)]
    /\ UNCHANGED <<th, cache, now, pc, op, stage, ser, ci, yi, all_data, result, req,
                   reqs, lastEv, outcome, ret, nAnom, nFetch, nElapse>>

InitClean ==
    /\ cache = EmptyCache
    /\ now = 0
    /\ pc = "idle"
    /\ op = NoOp
    /\ stage = 0
    /\ ser = NoSer
    /\ ci = 1
    /\ yi = 1
    /\ all_data = <<>>
    /\ result = NoResult
    /\ req = NoReq
    /\ reqs = <<>>
    /\ lastEv = "none"
    /\ outcome = "none"
    /\ ret = NoneVal
    /\ nAnom = 0
    /\ nFetch = 0
    /\ nElapse = 0
    /\ th = NoThreads
    /\ \E raw_code \in CodeStrings :
          sh = [use |-> "clean", raw_code |-> raw_code, pc |-> "start",
                cleaned |-> NoCode, again |-> NoCode]

NextClean ==
    \/ CleanCode
    \/ CleanAgain

SpecClean == InitClean /\ [][NextClean]_vars

-----
(* GeminiService.extract_commodity_keywords (src/ai_service.py) *)

UserInputs == {"kelapa", "tebu"}

\* What one generate_content call followed by json.loads can do: a parsed
\* answer, an exception whose text names a quota, any other exception (an
\* AttributeError of the client included), or a text json.loads rejects.
CallOutcomes == {"ok", "quota_error", "other_error", "unparsable"}

\* The JSON objects the service answers with.
ServiceAnswers ==
    { [commodity_name |-> "coconut", raw_hs_codes |-> << "0801.12" >>,
       semi_hs_codes |-> << "1513.11" >>, finished_hs_codes |-> << "3401.11" >>],
      [commodity_name |-> "sugar cane", raw_hs_codes |-> << "1212.93" >>,
       semi_hs_codes |-> << >>, finished_hs_codes |-> << "1701.99" >>] }

get_fallback_result_sampleCodes(user_input) ==
    [commodity_name |-> user_input, raw_hs_codes |-> << "0801.12" >>,
     semi_hs_codes |-> << >>, finished_hs_codes |-> << >>]

\* _get_fallback_result: the fields of the degenerate result that depend on
\* the input or carry codes.
get_fallback_result(user_input) ==
    [commodity_name |-> user_input, raw_hs_codes |-> << >>,
     semi_hs_codes |-> << >>, finished_hs_codes |-> << >>]

NoAnswer == [commodity_name |-> "", raw_hs_codes |-> << >>,
             semi_hs_codes |-> << >>, finished_hs_codes |-> << >>]

\* any(indicator in error_msg for indicator in quota_indicators)
is_quota_error(o) == o = "quota_error"

ClassifyUnchanged ==
    UNCHANGED <<th, cache, now, pc, op, stage, ser, ci, yi, all_data, result, req,
                reqs, lastEv, outcome, ret, nAnom, nFetch, nElapse>>

\* extract_commodity_keywords(user_input) is called: the prompt is built.
CallClassifier(user_input) ==
    /\ sh.pc \in {"idle", "returned"}
    /\ sh.calls < MaxCalls
    /\ sh' = [sh EXCEPT !.pc = "primary", !.user_input = user_input,
                        !.calls = @ + 1, !.attempts = << >>, !.backup_i = 0,
                        !.quota = FALSE, !.fallback = FALSE, !.ret = NoAnswer]
    /\ ClassifyUnchanged

\* The try block: self.client.generate_content and json.loads.
PrimaryCall(o, answer) ==
    /\ sh.pc = "primary"
    /\ sh' = IF o = "ok"
             THEN [sh EXCEPT !.pc = "returned", !.ret = answer,
                             !.attempts = Append(@, o)]
             ELSE [sh EXCEPT !.pc = "backups", !.backup_i = 1,
                             !.quota = is_quota_error(o),
                             !.attempts = Append(@, o)]
    /\ ClassifyUnchanged

\* One iteration of `for backup_key in self.api_keys` in either branch of
\* the handler.
BackupStep(o, answer) ==
    /\ sh.pc = "backups"
    /\ sh.backup_i <= Len(sh.api_keys)
    /\ LET backup_key == sh.api_keys[sh.backup_i]
           next == [sh EXCEPT !.backup_i = @ + 1]
       IN  sh' = IF backup_key = sh.api_key THEN next
                 ELSE IF backup_key \notin sh.clients THEN next
                 ELSE IF o = "ok"
                      THEN [sh EXCEPT !.pc = "returned", !.ret = answer,
                                      !.attempts = Append(@, o),
                                      !.api_key = IF sh.quota THEN backup_key ELSE @]
                      ELSE [next EXCEPT !.attempts = Append(@, o)]
    /\ ClassifyUnchanged

\* After the loop: return self._get_fallback_result(user_input)
FallbackReturn ==
    /\ sh.pc = "backups"
    /\ sh.backup_i > Len(sh.api_keys)
    /\ sh' = [sh EXCEPT !.pc = "returned", !.fallback = TRUE,
                        !.ret = get_fallback_result(sh.user_input)]
    /\ ClassifyUnchanged

\* The services __init__ can build: one or two keys, a client for the first
\* key (self.clients[self.api_keys[0]]) and possibly one for the second.
ServiceConfigs ==
    { [api_keys |-> << "key" >>, clients |-> {"key"}],
      [api_keys |-> << "key", "backup" >>, clients |-> {"key"}],
      [api_keys |-> << "key", "backup" >>, clients |-> {"key", "backup"}] }

InitClassify ==
    /\ cache = EmptyCache
    /\ now = 0
    /\ pc = "idle"
    /\ op = NoOp
    /\ stage = 0
    /\ ser = NoSer
    /\ ci = 1
    /\ yi = 1
    /\ all_data = <<>>
    /\ result = NoResult
    /\ req = NoReq
    /\ reqs = <<>>
    /\ lastEv = "none"
    /\ outcome = "none"
    /\ ret = NoneVal
    /\ nAnom = 0
    /\ nFetch = 0
    /\ nElapse = 0
    /\ th = NoThreads
    /\ \E cfg \in ServiceConfigs :
          sh = [use |-> "classify", api_keys |-> cfg.api_keys, clients |-> cfg.clients,
                api_key |-> cfg.api_keys[1], pc |-> "idle", user_input |-> "",
                calls |-> 0, attempts |-> << >>, backup_i |-> 0, quota |-> FALSE,
                fallback |-> FALSE, ret |-> NoAnswer]

NextClassify ==
    \/ \E user_input \in UserInputs : CallClassifier(user_input)
    \/ \E o \in CallOutcomes, answer \in ServiceAnswers : PrimaryCall(o, answer)
    \/ \E o \in CallOutcomes, answer \in ServiceAnswers : BackupStep(o, answer)
    \/ FallbackReturn

SpecClassify == InitClassify /\ [][NextClassify]_vars

----------------------------------------------------------------------------
(* Helpers of the properties *)

Last(q) == q[Len(q)]

\* The number of external calls in a log, and the sleeps of a log in order.
RECURSIVE Calls(_)
Calls(log) ==
    IF log = <<>> THEN 0
    ELSE (IF Head(log).ev = "call" THEN 1 ELSE 0) + Calls(Tail(log))

RECURSIVE Delays(_)
Delays(log) ==
    IF log = <<>> THEN <<>>
    ELSE IF Head(log).ev = "sleep"
         THEN << Head(log).d >> \o Delays(Tail(log))
         ELSE Delays(Tail(log))

\* q is k >= 1 copies of x
AllAre(q, x) == q # <<>> /\ \A i \in DOMAIN q : q[i] = x

\* The running _make_request has returned to its caller.
Returned == pc = "mr_ret" \/ (pc = "done" /\ outcome = "returned")

----------------------------------------------------------------------------
(* Properties of _make_request, checked under SpecFetch *)

\* C1: whenever the cache store holds an unexpired entry for the key of a
\* _make_request, the call returns exactly the stored payload and performs
\* no external call and no sleep, whatever the stored payload is.
C1_HitReturnsStoredPayload ==
    req.hadEntry =>
        /\ req.log = <<>>
        /\ Returned => req.val = req.stored

\* C2: a status-200 answer after a miss is in the cache, with expiry now + 30
\* days and kind export for flow X / import otherwise, when _make_request
\* returns it; and a later _make_request that finds that entry for its key,
\* written less than 30 days before, makes no external call.
C2_SuccessIsCachedAndServed ==
    /\ (pc = "mr_ret" /\ req.resps # <<>> /\ Last(req.resps) = "200") =>
           /\ ReqKey(req) \in DOMAIN cache
           /\ cache[ReqKey(req)].response_data = JsonDumps(req.val)
           /\ cache[ReqKey(req)].expires_at = now + 30
           /\ cache[ReqKey(req)].request_type =
                 (IF req.flow_code = "X" THEN "export" ELSE "import")
    /\ req.hadEntry => Calls(req.log) = 0

\* C3: a _make_request that gets 429 at every attempt makes exactly 3
\* external calls and returns None; its first retry comes after a sleep of 1 s
\* and its second after a sleep of 2 s; and no _make_request makes more than
\* 3 external calls, whatever the answers.
C3_RateLimitRetries ==
    /\ Calls(req.log) <= 3
    /\ (Returned /\ AllAre(req.resps, "429")) =>
           /\ Calls(req.log) = 3
           /\ req.val = NoneVal
           /\ SubSeq(req.log, 1, 5) =
                 << CallEv, SleepEv(10), CallEv, SleepEv(20), CallEv >>

C3_Witness ==
    /\ pc = "mr_ret"
    /\ req.resps = << "429", "429", "429" >>

\* C5: for k in 1..3, a _make_request that has met k transport errors in a
\* row has slept the same delays as one that has met k rate-limit answers in
\* a row: 1 s, 2 s, ... doubling, one sleep per failed attempt.
C5_SameBackoff ==
    \A k \in 1..3 :
        \A kind \in {"429", "exc"} :
            (Len(req.resps) = k /\ AllAre(req.resps, kind)) =>
                Delays(req.log) = [i \in 1..k |-> 10 * (2 ^ (i - 1))]

\* C6 as stated: a status that is neither 429 nor 2xx ends the request at
\* once with no data, and every 2xx status is a success (the body is
\* returned).
C6_Every2xxIsSuccess ==
    (Returned /\ req.resps # <<>>) =>
        /\ Last(req.resps) \in {"404", "500"} => req.val = NoneVal
        /\ Last(req.resps) \in {"200", "204"} => req.val # NoneVal

\* C6 amended: a status that is neither 429 nor 200 ends the request at once:
\* that call is the last one, no sleep and no cache write follow it, None is
\* returned (after exactly one call when it answers the first attempt); only
\* a status-200 answer makes _make_request return data.
C6_OnlyStatus200IsSuccess ==
    [][ (pc = "mr_attempt" /\ pc' = "mr_ret") =>
          /\ Last(req'.resps) \in {"204", "500"} =>
                /\ cache' = cache
                /\ req'.val = NoneVal
                /\ req'.log = Append(req.log, CallEv)
                /\ req.resps = <<>> => Calls(req'.log) = 1
          /\ req'.val # NoneVal => Last(req'.resps) = "200" ]_vars

C6_Witness ==
    /\ pc = "mr_ret"
    /\ req.resps = << "204" >>
    /\ req.val = NoneVal
    /\ ReqKey(req) \notin DOMAIN cache

----------------------------------------------------------------------------
(* Properties of get_export_data, get_import_data and four_request_protocol,
   checked under Spec *)

\* Every _make_request of this execution that has returned to its caller.
Finished == IF pc = "mr_ret" THEN Append(reqs, Done(req, 0)) ELSE reqs

\* The requests of the running series: those of the running stage.
SeriesReqs == SelectSeq(Finished, LAMBDA e : e.stage = stage)

\* The requests of the running series that the loop has taken back.
SeriesDone == SelectSeq(reqs, LAMBDA e : e.stage = stage)

Aggregate == ser.fn = "import" /\ ser.reporter_code = "all"

InSeries == pc \in {"loop", "mr_attempt", "mr_ret", "series_end"}

\* The rows of the fragments of es that have rows, in order.
RECURSIVE RowsOf(_)
RowsOf(es) ==
    IF es = <<>> THEN <<>>
    ELSE (IF ~Head(es).val.isNone /\ "data" \in Head(es).val.keys
          THEN Head(es).val.data ELSE <<>>) \o RowsOf(Tail(es))

\* C4: a _make_request whose every attempt ends in a transport error makes
\* exactly 3 attempts and returns None; get_export_data, get_import_data and
\* four_request_protocol do not ask again: each loop iteration makes one
\* _make_request, and the failed one adds no row.
C4_TransportErrorsAreTerminal ==
    /\ \A i \in DOMAIN Finished :
          AllAre(Finished[i].resps, "exc") =>
              /\ Len(Finished[i].resps) = 3
              /\ Finished[i].val = NoneVal
    /\ pc = "mr_attempt" => Len(req.resps) < 3
    /\ pc = "loop" =>
          /\ Len(SeriesDone) = (ci - 1) * Len(op.years) + (yi - 1)
          /\ all_data = RowsOf(SeriesDone)

C4_Witness ==
    /\ pc = "loop"
    /\ reqs # <<>>
    /\ Last(reqs).resps = << "exc", "exc", "exc" >>
    /\ ci <= Len(Countries(ser))

\* The request e was made by the aggregate loop of get_import_data: an
\* import request of the protocol, or of get_import_data("all", ...).
InAggregateLoop(e) ==
    e.flow_code = "M" /\ (op.name = "protocol" \/ op.reporter_code = "all")

\* C7: no external call is issued right after another one with no sleep in
\* between, and every _make_request that returned from get_export_data,
\* get_import_data or four_request_protocol is followed by the fixed sleep
\* of its loop (0.5 s, or 0.3 s in the aggregate loop).
C7_SleepBetweenCalls ==
    /\ pc = "mr_attempt" => lastEv # "call"
    /\ \A i \in DOMAIN reqs :
          reqs[i].after = IF InAggregateLoop(reqs[i]) THEN 3 ELSE 5

C7_Witness ==
    /\ pc = "mr_attempt"
    /\ lastEv = "sleep"
    /\ reqs # <<>>
    /\ Last(reqs).resps = << "200" >>
    /\ Last(reqs).stage = 4

\* C8: in a four_request_protocol run the requests come stage by stage in the
\* order raw export, semi export, finished export, global finished import
\* (a request of a stage starts only when all requests of the stages before
\* have returned and their datasets are stored), and the analysis exists
\* only when all four datasets are stored.
C8_StagesInOrder ==
    op.name = "protocol" =>
        /\ \A i \in DOMAIN Finished :
              LET e == Finished[i] IN
              /\ e.stage \in 1..stage
              /\ i > 1 => Finished[i - 1].stage <= e.stage
              /\ e.stage = 1 => e.flow_code = "X" /\ e.hs_code = op.hs[1]
                                /\ e.reporter = "360"
              /\ e.stage = 2 => e.flow_code = "X" /\ e.hs_code = op.hs[2]
                                /\ e.reporter = "360"
              /\ e.stage = 3 => e.flow_code = "X" /\ e.hs_code = op.hs[3]
                                /\ e.reporter = "360"
              /\ e.stage = 4 => e.flow_code = "M" /\ e.hs_code = op.hs[3]
                                /\ e.reporter # "360"
        /\ InSeries =>
              DOMAIN result.data =
                 { n \in {"indonesia_raw_export", "indonesia_semi_export",
                          "indonesia_finished_export", "world_finished_import"} :
                     \/ n = "indonesia_raw_export" /\ stage > 1
                     \/ n = "indonesia_semi_export" /\ stage > 2
                     \/ n = "indonesia_finished_export" /\ stage > 3 }
        /\ (pc = "analyze" \/ result.analysis.done) =>
              DOMAIN result.data =
                 {"indonesia_raw_export", "indonesia_semi_export",
                  "indonesia_finished_export", "world_finished_import"}

C8_Witness ==
    /\ op.name = "protocol"
    /\ result.analysis.done
    /\ op.hs[2] # op.hs[3]
    /\ \A k \in 1..4 : \E i \in DOMAIN reqs : reqs[i].stage = k

\* C9 as stated: no _make_request is issued for a year later than the
\* current calendar year.
C9_NoRequestForFutureYears ==
    \A i \in DOMAIN Finished : Finished[i].period <= CurrentYear

\* C9 amended: for a single reporting scope the loop issues exactly one
\* _make_request per element of years, in list order, for that reporter,
\* whether or not the year is later than the current calendar year.
C9_OneRequestPerListedYear ==
    (InSeries /\ ~Aggregate) =>
        /\ Len(SeriesReqs) <= Len(op.years)
        /\ \A i \in DOMAIN SeriesReqs :
              /\ SeriesReqs[i].period = op.years[i]
              /\ SeriesReqs[i].reporter = ser.reporter_code
        /\ pc = "series_end" => Len(SeriesReqs) = Len(op.years)

C9_Witness ==
    /\ pc = "series_end"
    /\ ~Aggregate
    /\ ser.fn = "import"
    /\ op.years = << 2025, 2023 >>
    /\ Len(reqs) = 2
    /\ reqs[1].period = 2025

\* C10: for reporter "all" get_import_data never queries reporter "all"; it
\* issues one import request per (reporter, year), the 15 major reporters in
\* list order and the years in list order inside each reporter, and the
\* dataset it ends with is the rows of the fragments that have rows,
\* concatenated in that order.
C10_AggregateScope ==
    (InSeries /\ Aggregate) =>
        /\ Len(major_importers) = 15
        /\ \A i \in DOMAIN SeriesReqs :
              LET n == Len(op.years) IN
              /\ SeriesReqs[i].reporter # "all"
              /\ SeriesReqs[i].reporter = major_importers[((i - 1) \div n) + 1]
              /\ SeriesReqs[i].period = op.years[((i - 1) % n) + 1]
              /\ SeriesReqs[i].flow_code = "M"
        /\ pc \in {"loop", "series_end"} => all_data = RowsOf(SeriesReqs)
        /\ pc = "series_end" => Len(SeriesReqs) = 15 * Len(op.years)

C10_Witness ==
    /\ pc = "series_end"
    /\ Aggregate
    /\ op.years = << 2025, 2023 >>
    /\ Len(SeriesReqs) = 30
    /\ Len(all_data) = 29

----------------------------------------------------------------------------
(* Partial results, absent codes and value fields, checked under Spec *)

\* C11: get_export_data and get_import_data never fail: whatever fragments
\* succeed or fail, the call returns; the dataset is the rows of the
\* fragments that succeeded, in request order; a failed unit adds no row and
\* the loop goes on to the next unit.
C11_PartialResults ==
    /\ outcome # "raised"
    /\ pc \in {"loop", "series_end"} => all_data = RowsOf(SeriesDone)
    /\ pc = "loop" => Len(SeriesDone) = (ci - 1) * Len(op.years) + (yi - 1)
    /\ pc = "series_end" => Len(SeriesDone) = Len(Countries(ser)) * Len(op.years)
    /\ (pc = "done" /\ op.name \in {"export", "import"}) => ret.data = RowsOf(reqs)

\* C12: when four_request_protocol is called with None as the semi-finished
\* code, the semi-export dataset of the result is empty, whatever the service
\* or the cache answers.
C12_AbsentSemiCodeGivesEmptyDataset ==
    (/\ op.name = "protocol"
     /\ op.hs[2] = NoneCode
     /\ "indonesia_semi_export" \in DOMAIN result.data) =>
        result.data["indonesia_semi_export"] = <<>>

\* C13: a status-200 fragment whose row has a missing or null value field is
\* not an error: _make_request returns it, the series call that asked for it
\* returns too, and the row is in the dataset with its value unknown.
C13_UnknownValueIsNotAnError ==
    /\ (pc = "done" /\ req.resps # <<>> /\ Last(req.resps) = "200") =>
           outcome = "returned"
    /\ \A i \in DOMAIN Finished :
          LET e == Finished[i] IN
          (e.resps # <<>> /\ Last(e.resps) = "200") => e.val # NoneVal

----------------------------------------------------------------------------
(* Properties of the cache store *)

\* The keys a direct _make_request may use.
FetchKeys ==
    { CacheKey(r, "0", f, c, p) :
        r \in FetchReporters, f \in FetchFlows, c \in FetchCodes, p \in FetchPeriods }

\* C14: get_cached_api_response(key) gives a payload only if the store holds
\* an entry for key with now < expires_at, and gives None for an entry whose
\* expiration has passed (now >= expires_at); so a _make_request that
\* returned from the cache found such an entry, and one that went on to the
\* service found none, an expired one or an empty payload.
C14_GetNeverReturnsExpired ==
    /\ \A key \in FetchKeys :
          LET got == get_cached_api_response(cache, key, now) IN
          /\ got # NoneVal => key \in DOMAIN cache /\ now < cache[key].expires_at
          /\ (key \in DOMAIN cache /\ cache[key].expires_at <= now) => got = NoneVal
    /\ (pc = "mr_ret" /\ req.resps = <<>>) =>
          /\ ReqKey(req) \in DOMAIN cache
          /\ now < cache[ReqKey(req)].expires_at
          /\ req.val = JsonLoads(cache[ReqKey(req)].response_data)
    /\ (pc = "mr_attempt" /\ req.resps = <<>> /\ ReqKey(req) \in DOMAIN cache) =>
          \/ cache[ReqKey(req)].expires_at <= now
          \/ ~Truthy(JsonLoads(cache[ReqKey(req)].response_data))

\* An entry with a non-empty payload expires at this very instant and the
\* request for its key has gone on to the service.
C14_Witness ==
    /\ pc = "mr_attempt"
    /\ req.resps = <<>>
    /\ ReqKey(req) \in DOMAIN cache
    /\ cache[ReqKey(req)].expires_at = now
    /\ Truthy(JsonLoads(cache[ReqKey(req)].response_data))

\* The steps of SpecStore: the statement of a put by c runs; a get runs.
PutRuns(c) == th[c].pc = "prepared" /\ th'[c].pc = "idle"

GetRuns == sh'.nOps = sh.nOps + 1 /\ sh'.last.op = "get"

StoredPayload(c, key) == JsonLoads(c[key].response_data)

\* C15: cache_api_response is an upsert.  A put leaves exactly one entry for
\* its key and touches no other entry; for a new and for an existing key
\* alike the entry then holds the payload of this put, expires at now + 30
\* days and is created now; and a get that follows returns the payload of
\* the latest put.
C15_PutIsUpsert ==
    [][ /\ \A c \in Clients : PutRuns(c) =>
              LET key == th[c].key IN
              /\ DOMAIN cache' = DOMAIN cache \cup {key}
              /\ \A k \in DOMAIN cache \ {key} : cache'[k] = cache[k]
              /\ cache'[key].response_data = JsonDumps(th[c].val)
              /\ cache'[key].expires_at = now + 30
              /\ cache'[key].created_at = now
              /\ get_cached_api_response(cache', key, now') = th[c].val
        /\ (GetRuns /\ sh.last.op = "put" /\ sh.last.key = sh'.last.key
                    /\ now < sh.last.at + 30) =>
              sh'.last.val = sh.last.val ]_vars

\* A put on day 29 has replaced an entry written before under the same key.
C15_Witness ==
    /\ sh.use = "store"
    /\ sh.last.op = "put"
    /\ sh.last.had
    /\ sh.last.at = 29
    /\ cache[sh.last.key].created_at = 29
    /\ cache[sh.last.key].expires_at = 59
    /\ StoredPayload(cache, sh.last.key) = sh.last.val

\* C16: a get that comes right after a put of the same key (no time has
\* passed) returns a payload identical to the one that was put.
C16_RoundTrip ==
    [][ (GetRuns /\ sh.last.op = "put" /\ sh.last.key = sh'.last.key
                /\ sh.last.at = now) =>
           sh'.last.val = sh.last.val ]_vars

\* A get has returned a payload with a null value, put the same day.
C16_Witness ==
    /\ sh.use = "store"
    /\ sh.last.op = "get"
    /\ sh.last.val \in StorePayloads(sh.last.key)
    /\ sh.last.val.data # << >>
    /\ sh.last.val.data[1].valueKind = "null"
    /\ cache[sh.last.key].created_at = sh.last.at

\* C17: under every interleaving of the puts and gets of several callers on
\* the same key, each put statement leaves one entry for the key holding
\* the whole payload of that put (the last write wins) and leaves the other
\* entries alone, nothing but a put statement changes the store, every
\* stored payload is the whole payload of some put, and a get returns None
\* or the whole stored payload.
C17_LastWriteWins ==
    [][ /\ \A c \in Clients : PutRuns(c) =>
              /\ th[c].key \in DOMAIN cache'
              /\ StoredPayload(cache', th[c].key) = th[c].val
              /\ \A k \in DOMAIN cache' \ {th[c].key} :
                    k \in DOMAIN cache /\ cache'[k] = cache[k]
        /\ (\A c \in Clients : ~PutRuns(c)) => cache' = cache
        /\ \A k \in DOMAIN cache : StoredPayload(cache, k) \in StorePayloads(k)
        /\ GetRuns =>
              \/ sh'.last.val = NoneVal
              \/ /\ sh'.last.key \in DOMAIN cache
                 /\ sh'.last.val = StoredPayload(cache, sh'.last.key) ]_vars

\* While the put of caller 1 is under way, the put of another caller has
\* replaced the entry of the same key with a different payload.
C17_Witness ==
    /\ sh.use = "store"
    /\ th[1].pc = "prepared"
    /\ sh.last.op = "put"
    /\ sh.last.had
    /\ sh.last.key = th[1].key
    /\ sh.last.val # th[1].val
    /\ StoredPayload(cache, sh.last.key) = sh.last.val

----------------------------------------------------------------------------
(* Properties of _analyze_protocol_results, checked under SpecAnalyze *)

\* The years of the rows of a dataset.
YearsIn(df) == { df[i].period : i \in DOMAIN df }

\* The sum of the values of the rows of df whose year is in years.
RECURSIVE TotalIn(_, _, _)
TotalIn(df, years, i) ==
    IF i > Len(df) THEN 0
    ELSE (IF df[i].period \in years THEN ValueOf(df[i]) ELSE 0) + TotalIn(df, years, i + 1)

Ascending(q) == \A i, j \in DOMAIN q : i < j => q[i] < q[j]

ElemsOf(q) == { q[i] : i \in DOMAIN q }

Analysed == pc = "done" /\ result.analysis.done

\* C19: aligned_years is the ascending list of exactly the years present in
\* both the finished-export and the global-demand dataset;
\* excluded_years.indonesia_only and .global_only are the years present in
\* one side only; the three are pairwise disjoint and cover every year of
\* either dataset.
C19_YearAlignment ==
    Analysed =>
        LET a  == result.analysis
            fy == YearsIn(result.data["indonesia_finished_export"])
            gy == YearsIn(result.data["world_finished_import"])
            al == ElemsOf(a.aligned_years)
            io == ElemsOf(a.excluded_years.indonesia_only)
            go == ElemsOf(a.excluded_years.global_only)
        IN  /\ Ascending(a.aligned_years)
            /\ al = { y \in fy : y \in gy }
            /\ io = { y \in fy : y \notin gy }
            /\ go = { y \in gy : y \notin fy }
            /\ al \cap io = {} /\ al \cap go = {} /\ io \cap go = {}
            /\ al \cup io \cup go = fy \cup gy

\* Two aligned years that the finished-export dataset lists in descending
\* order.
C19_Witness ==
    /\ Analysed
    /\ Len(result.analysis.aligned_years) = 2
    /\ Len(result.data["indonesia_finished_export"]) = 2
    /\ result.data["indonesia_finished_export"][1].period >
          result.data["indonesia_finished_export"][2].period

DisjointYears ==
    /\ result.data["indonesia_finished_export"] # << >>
    /\ result.data["world_finished_import"] # << >>
    /\ YearsIn(result.data["indonesia_finished_export"])
          \cap YearsIn(result.data["world_finished_import"]) = {}

RowsInYears(df, years) == SelectSeq(df, LAMBDA r : r.period \in years)

TrendData(stageName) ==
    LET al == ElemsOf(result.analysis.aligned_years)
    IN  CASE stageName = "raw" -> result.data["indonesia_raw_export"]
          [] stageName = "semi" -> result.data["indonesia_semi_export"]
          [] stageName = "finished" ->
                RowsInYears(result.data["indonesia_finished_export"], al)
          [] stageName = "demand" ->
                RowsInYears(result.data["world_finished_import"], al)

TrendOf(stageName) ==
    CASE stageName = "raw" -> result.analysis.raw_export_trend
      [] stageName = "semi" -> result.analysis.semi_export_trend
      [] stageName = "finished" -> result.analysis.finished_export_trend
      [] stageName = "demand" -> result.analysis.global_demand_trend

StageNames == {"raw", "semi", "finished", "demand"}

FirstYear(df) == CHOOSE y \in YearsIn(df) : \A z \in YearsIn(df) : y <= z

LastYear(df) == CHOOSE y \in YearsIn(df) : \A z \in YearsIn(df) : y >= z

\* C22: the trend of a stage is 0 when the rows it is computed from cover
\* fewer than 2 distinct years or the yearly sum of their first year is not
\* positive; otherwise it is the CAGR of the yearly sums of the first and
\* the last year with exponent 1 / (number of distinct years - 1).
C22_TrendDefinition ==
    Analysed =>
        \A st \in StageNames :
            LET df == TrendData(st)
                t  == TrendOf(st)
            IN  IF Cardinality(YearsIn(df)) < 2
                THEN t.zero
                ELSE IF TotalIn(df, {FirstYear(df)}, 1) <= 0
                     THEN t.zero
                     ELSE /\ ~t.zero
                          /\ t.start_val = TotalIn(df, {FirstYear(df)}, 1)
                          /\ t.end_val = TotalIn(df, {LastYear(df)}, 1)
                          /\ t.n_years = Cardinality(YearsIn(df)) - 1

\* The finished stage has a trend over aligned years listed in descending
\* order, the demand stage has two aligned years whose first sum is 0, and
\* the semi stage has two rows of one year.
C22_Witness ==
    /\ Analysed
    /\ ~result.analysis.finished_export_trend.zero
    /\ result.analysis.finished_export_trend.start_val
          # result.analysis.finished_export_trend.end_val
    /\ result.data["indonesia_finished_export"][1].period >
          result.data["indonesia_finished_export"][2].period
    /\ Len(result.analysis.aligned_years) = 2
    /\ result.analysis.global_demand_trend.zero
    /\ result.analysis.global_demand_total > 0
    /\ Len(result.data["indonesia_semi_export"]) = 2
    /\ result.analysis.semi_export_trend.zero

\* C23: for a stage whose rows cover exactly two distinct years, with a
\* positive first yearly sum, the trend is (last / first - 1) x 100; yearly
\* sums 100 then 150 give 50.
C23_TwoPointTrend ==
    Analysed =>
        \A st \in StageNames :
            LET df    == TrendData(st)
                first == TotalIn(df, {FirstYear(df)}, 1)
                last  == TotalIn(df, {LastYear(df)}, 1)
                v     == TrendPercent(TrendOf(st))
            IN  (Cardinality(YearsIn(df)) = 2 /\ first > 0) =>
                    /\ v.exact
                    /\ v.den > 0
                    /\ v.num * first = v.den * (last - first) * 100
                    /\ (first = 100 /\ last = 150) => v.num = 50 * v.den

\* The finished stage has the yearly sums 100 then 150 and the trend 50.
C23_Witness ==
    /\ Analysed
    /\ Len(result.analysis.aligned_years) = 2
    /\ ~result.analysis.finished_export_trend.zero
    /\ result.analysis.finished_export_trend.start_val = 100
    /\ result.analysis.finished_export_trend.end_val = 150
    /\ TrendPercent(result.analysis.finished_export_trend).num
          = 50 * TrendPercent(result.analysis.finished_export_trend).den

----------------------------------------------------------------------------
(* Property of the singleton accessors, checked under SpecSingleton *)

\* C18: under every interleaving of concurrent first calls of an accessor
\* the instance is constructed at most once, every caller that is handed an
\* instance is handed that one, and when no constructor or schema
\* initialisation raised every caller is handed it.
C18_SingletonBuiltOnce ==
    /\ sh.built <= 1
    /\ \A t \in Clients :
          th[t].pc = "returned" =>
              /\ th[t].val # NoInstance => th[t].val = 1 /\ sh.instance = 1
              /\ ~sh.failed => th[t].val = 1 /\ sh.built = 1

\* Every caller saw None at the first check, and all of them were handed
\* the one instance.
C18_Witness ==
    /\ sh.use = "singleton"
    /\ sh.built = 1
    /\ ~sh.failed
    /\ \A t \in Clients :
          th[t].pc = "returned" /\ th[t].sawNone /\ th[t].val = sh.instance

\* C38: get_db_manager returns None when the database connection cannot be
\* established: with no connection every call returns None; and once a call
\* has returned None no later call returns an instance (connectivity does
\* not change during a run).
C38_NoneWithoutConnection ==
    [][ sh'.accessor = "get_db_manager" =>
          \A t \in Clients :
             (th'[t].pc = "returned" /\ th[t].pc # "returned") =>
                 /\ ~sh'.connected => th'[t].val = NoInstance
                 /\ sh.failed => th'[t].val = NoInstance ]_vars

----------------------------------------------------------------------------
(* Properties of the classification codes, checked under SpecResolve *)

\* select_hs_codes_with_conflict_resolution has returned sh.frame.result.
Resolved == sh.use = "codes" /\ sh.pc = "resolved"

StageOrder == [st \in StageSet |->
                  CASE st = "raw" -> 1 [] st = "semi" -> 2 [] st = "finished" -> 3]

\* The cleaned candidates of a stage, as a set.
CleanedOf(st) ==
    LET items == GetList(sh.ai_result, stage_key_map[st])
    IN  { clean_hs_code(RawCodeOf(items[i])) : i \in DOMAIN items } \ { NoCode }

\* The codes assigned to the stages before st.
AssignedBefore(st) ==
    { sh.frame.result[t] : t \in { u \in StageSet : StageOrder[u] < StageOrder[st] } }
        \ { NoCode }

\* The answer of the classifier without one of its keys.
WithoutKey(ai_result, key) == [k \in DOMAIN ai_result \ {key} |-> ai_result[k]]

\* C26: two different stages have the same code only if every cleaned
\* candidate of the later stage had been assigned to an earlier stage; when
\* the later stage has a candidate not yet assigned, its code differs from
\* the code of every earlier stage.
C26_DuplicateOnlyWhenExhausted ==
    Resolved =>
        \A s, t \in StageSet :
            StageOrder[s] < StageOrder[t] =>
                /\ (sh.frame.result[t] # NoCode /\ sh.frame.result[s] = sh.frame.result[t])
                      => CleanedOf(t) \subseteq AssignedBefore(t)
                /\ (CleanedOf(t) \ AssignedBefore(t) # {})
                      => sh.frame.result[t] # sh.frame.result[s]

\* Raw and semi prefer the same code and semi has another candidate: semi
\* is given the other one.
C26_Witness ==
    /\ Resolved
    /\ get_best_hs_code(sh.ai_result, "raw") # NoCode
    /\ get_best_hs_code(sh.ai_result, "raw") = get_best_hs_code(sh.ai_result, "semi")
    /\ Cardinality(CleanedOf("semi")) = 2
    /\ sh.frame.result["semi"] # sh.frame.result["raw"]
    /\ sh.frame.result["semi"] # NoCode

\* The input raw [0801.12, 0801.19], semi [0801.12, 1513.11],
\* finished [3401.11].
CoconutInput ==
    [raw_hs_codes |-> << DictItem(<< "0", "8", "0", "1", ".", "1", "2" >>),
                         DictItem(<< "0", "8", "0", "1", ".", "1", "9" >>) >>,
     semi_hs_codes |-> << DictItem(<< "0", "8", "0", "1", ".", "1", "2" >>),
                          DictItem(<< "1", "5", "1", "3", ".", "1", "1" >>) >>,
     finished_hs_codes |-> << DictItem(<< "3", "4", "0", "1", ".", "1", "1" >>) >>]

\* C27: processing the stages in the order raw, semi, finished, each stage
\* is assigned the first of its cleaned candidates, in their given order,
\* that no earlier stage was assigned; the input raw [0801.12, 0801.19],
\* semi [0801.12, 1513.11], finished [3401.11] gives raw 080112,
\* semi 151311, finished 340111.
C27_FirstFreeCandidate ==
    Resolved =>
        /\ \A st \in StageSet :
              LET codes == extract_hs_codes_from_ai(sh.ai_result, st)
                  free  == { i \in DOMAIN codes : codes[i] \notin AssignedBefore(st) }
              IN  free # {} =>
                     sh.frame.result[st] =
                        codes[CHOOSE i \in free : \A j \in free : i <= j]
        /\ sh.ai_result = CoconutInput =>
              /\ sh.frame.result["raw"] = << "0", "8", "0", "1", "1", "2" >>
              /\ sh.frame.result["semi"] = << "1", "5", "1", "3", "1", "1" >>
              /\ sh.frame.result["finished"] = << "3", "4", "0", "1", "1", "1" >>

\* The resolver has returned for the input of the example.
C27_Witness ==
    /\ Resolved
    /\ sh.ai_result = CoconutInput
    /\ sh.frame.result["semi"] = << "1", "5", "1", "3", "1", "1" >>

\* C28: a stage all of whose candidates are assigned to earlier stages is
\* assigned its own first candidate, and the later stages are assigned what
\* they are assigned when that stage is absent from the input.
C28_FallbackToFirstCandidate ==
    Resolved =>
        \A st \in StageSet :
            LET codes == extract_hs_codes_from_ai(sh.ai_result, st)
                alone == select_hs_codes_with_conflict_resolution(
                            WithoutKey(sh.ai_result, stage_key_map[st]))
            IN  (codes # << >> /\ CleanedOf(st) \subseteq AssignedBefore(st)) =>
                    /\ sh.frame.result[st] = codes[1]
                    /\ sh.frame.used_codes =
                          { sh.frame.result[t] : t \in StageSet } \ { NoCode }
                    /\ \A t \in StageSet :
                          StageOrder[t] > StageOrder[st] =>
                              sh.frame.result[t] = alone[t]

\* The semi stage fell back to the code of the raw stage, and the finished
\* stage was assigned the code it prefers.
C28_Witness ==
    /\ Resolved
    /\ sh.frame.result["semi"] # NoCode
    /\ sh.frame.result["semi"] = sh.frame.result["raw"]
    /\ sh.frame.result["finished"] # NoCode
    /\ sh.frame.result["finished"] = get_best_hs_code(sh.ai_result, "finished")

\* No item of the stage's list holds a digit (or the list is empty or
\* absent).
NoUsableCandidate(st) ==
    LET items == GetList(sh.ai_result, stage_key_map[st])
    IN  \A i \in DOMAIN items :
            \A j \in DOMAIN items[i].code : items[i].code[j] \notin DigitChars

\* C29: a stage with no usable candidate is assigned None, the other stages
\* are assigned what they are assigned when that stage is absent from the
\* input, and the result has exactly the keys raw, semi and finished.
C29_EmptyStageIsNone ==
    Resolved =>
        /\ DOMAIN sh.frame.result = {"raw", "semi", "finished"}
        /\ \A st \in StageSet :
              NoUsableCandidate(st) =>
                  /\ sh.frame.result[st] = NoCode
                  /\ \A t \in StageSet \ {st} :
                        sh.frame.result[t] =
                           select_hs_codes_with_conflict_resolution(
                              WithoutKey(sh.ai_result, stage_key_map[st]))[t]

\* The raw stage lists only an item without digits and is assigned None,
\* and the semi and finished stages are assigned codes.
C29_Witness ==
    /\ Resolved
    /\ "raw_hs_codes" \in DOMAIN sh.ai_result
    /\ sh.ai_result["raw_hs_codes"] # << >>
    /\ NoUsableCandidate("raw")
    /\ sh.frame.result["raw"] = NoCode
    /\ sh.frame.result["semi"] # NoCode
    /\ sh.frame.result["finished"] # NoCode

\* C30: the three codes perform_analysis hands to four_request_protocol are
\* the output of the conflict resolver; when the raw and the semi stage
\* prefer the same candidate and the semi stage has another candidate, the
\* semi code handed over differs from the raw code.
C30_HandedCodesAreResolved ==
    (sh.use = "codes" /\ sh.pc = "handed") =>
        LET resolved == select_hs_codes_with_conflict_resolution(sh.ai_result)
        IN  /\ sh.handed = << resolved["raw"], resolved["semi"], resolved["finished"] >>
            /\ (/\ get_best_hs_code(sh.ai_result, "raw")
                      = get_best_hs_code(sh.ai_result, "semi")
                /\ Cardinality(CleanedOf("semi")) > 1)
                  => sh.handed[2] # sh.handed[1]

\* perform_analysis has shown an error or handed codes to the protocol.
AnalysisStarted ==
    sh.use = "codes" /\ sh.pc \in {"stopped", "error", "handed", "complete"}

FirstPosition(items, code) ==
    CHOOSE i \in DOMAIN items :
        /\ clean_hs_code(RawCodeOf(items[i])) = code
        /\ \A j \in DOMAIN items : clean_hs_code(RawCodeOf(items[j])) = code => i <= j

\* C34: for a known stage extract_hs_codes_from_ai returns the cleaned codes
\* of the stage's candidates in their order of preference, each once (at
\* its first occurrence) and without the candidates that do not clean to a
\* code; for an unknown stage and for a missing or empty list it returns the
\* empty list; get_best_hs_code returns its first element, or None.
C34_ExtractedCodes ==
    (sh.use = "codes" /\ sh.pc = "extracted") =>
        LET known == sh.asked \in {"raw", "semi", "finished"}
            items == IF known THEN GetList(sh.ai_result, stage_key_map[sh.asked])
                     ELSE << >>
        IN  /\ ~known => sh.codes = << >>
            /\ items = << >> => sh.codes = << >>
            /\ known => { sh.codes[i] : i \in DOMAIN sh.codes } = CleanedOf(sh.asked)
            /\ \A i, j \in DOMAIN sh.codes :
                  i < j => /\ sh.codes[i] # sh.codes[j]
                           /\ FirstPosition(items, sh.codes[i])
                                 < FirstPosition(items, sh.codes[j])
            /\ sh.best = IF sh.codes = << >> THEN NoCode ELSE sh.codes[1]

\* Two candidates of a stage clean to the same code, which is returned once.
C34_Witness ==
    /\ sh.use = "codes"
    /\ sh.pc = "extracted"
    /\ sh.asked = "semi"
    /\ Len(GetList(sh.ai_result, "semi_hs_codes")) = 2
    /\ sh.ai_result["semi_hs_codes"][1] # sh.ai_result["semi_hs_codes"][2]
    /\ Len(sh.codes) = 1
    /\ sh.best = sh.codes[1]

\* C40: when the classification yields a raw and a finished code, the
\* database manager is available and no collaborator raises,
\* perform_analysis calls the protocol and ends with analysis_complete set,
\* not in its error branch, whether the commodity search was cached or not.
C40_AnalysisCompletes ==
    (/\ sh.use = "codes"
     /\ sh.pc \in {"stopped", "error", "complete"}
     /\ sh.db
     /\ ~sh.collaborator_failed
     /\ CleanedOf("raw") # {}
     /\ CleanedOf("finished") # {}) =>
        /\ sh.pc = "complete"
        /\ sh.analysis_complete
        /\ sh.protocol_calls = 1

----------------------------------------------------------------------------
(* Properties of clean_hs_code, checked under SpecClean *)

\* The digits of a string, in their order.
RECURSIVE DigitsFrom(_, _)
DigitsFrom(str, i) ==
    IF i > Len(str) THEN << >>
    ELSE (IF str[i] \in DigitChars THEN << str[i] >> ELSE << >>) \o DigitsFrom(str, i + 1)

Cleaned == sh.use = "clean" /\ sh.pc \in {"cleaned", "twice"}

\* C32: clean_hs_code returns None exactly when the input is empty or holds
\* no digit; otherwise it returns the first six digits of the input, all
\* other characters removed, padded on the right with zeros to 6 digits.
C32_CleanedCode ==
    Cleaned =>
        LET digits == DigitsFrom(sh.raw_code, 1)
        IN  /\ sh.cleaned = NoCode <=> digits = << >>
            /\ digits # << >> =>
                  /\ Len(sh.cleaned) = 6
                  /\ \A k \in 1..6 :
                        sh.cleaned[k] = IF k <= Len(digits) THEN digits[k] ELSE "0"

\* A string with a space, a dot and fewer than 6 digits was cleaned to a
\* padded code.
C32_Witness ==
    /\ Cleaned
    /\ \E i, j \in DOMAIN sh.raw_code :
          /\ 1 < i /\ i < j /\ j < Len(sh.raw_code)
          /\ sh.raw_code[i] = " " /\ sh.raw_code[j] = "."
    /\ Len(DigitsFrom(sh.raw_code, 1)) \in 1..5
    /\ sh.cleaned # NoCode
    /\ sh.cleaned[6] = "0"

\* C33: clean_hs_code is idempotent: cleaning a code it returned gives the
\* same code.
C33_CleanIsIdempotent ==
    (sh.use = "clean" /\ sh.pc = "twice") => sh.again = sh.cleaned

\* A string of more than 6 digits was cut to its first six, and cleaning
\* the result again gave the same code.
C33_Witness ==
    /\ sh.use = "clean"
    /\ sh.pc = "twice"
    /\ Len(DigitsFrom(sh.raw_code, 1)) > 6
    /\ sh.cleaned # SubSeq(sh.raw_code, 2, 7)
    /\ sh.again = sh.cleaned

----------------------------------------------------------------------------
(* Properties of extract_commodity_keywords, checked under SpecClassify *)

ServiceFailed == \A k \in DOMAIN sh.attempts : sh.attempts[k] # "ok"

\* C35: when the classification service fails (every call made ends in an
\* error or in a text that cannot be parsed), extract_commodity_keywords
\* returns the degenerate result: the input as commodity name and empty raw,
\* semi and finished code lists.
C35_FailureGivesDegenerateResult ==
    (sh.use = "classify" /\ sh.pc = "returned" /\ ServiceFailed) =>
        /\ sh.fallback
        /\ sh.ret.commodity_name = sh.user_input
        /\ sh.ret.raw_hs_codes = << >>
        /\ sh.ret.semi_hs_codes = << >>
        /\ sh.ret.finished_hs_codes = << >>

\* The primary call returned a text that could not be parsed, the backup
\* client failed too, and the call returned.
C35_Witness ==
    /\ sh.use = "classify"
    /\ sh.pc = "returned"
    /\ sh.attempts = << "unparsable", "other_error" >>
    /\ sh.ret = get_fallback_result(sh.user_input)

----------------------------------------------------------------------------
(* Termination and cost of four_request_protocol, checked under Spec *)

\* The external calls of the requests es.
RECURSIVE ExternalCalls(_)
ExternalCalls(es) ==
    IF es = <<>> THEN 0 ELSE Len(Head(es).resps) + ExternalCalls(Tail(es))

\* The (stage, reporter, year) unit a request serves.
UnitOf(e) == << e.stage, e.reporter, e.period >>

\* The protocol is not restarted, no unit is requested twice, and the run
\* stays within 3 x 18 x |years| external calls.
ProtocolCost ==
    op.name = "protocol" =>
        /\ \A i, j \in DOMAIN Finished :
              UnitOf(Finished[i]) = UnitOf(Finished[j]) => i = j
        /\ \A i \in DOMAIN Finished : Len(Finished[i].resps) <= max_retries
        /\ ExternalCalls(Finished) + (IF pc = "mr_attempt" THEN Len(req.resps) ELSE 0)
              <= max_retries * (3 + Len(major_importers)) * Len(op.years)

\* C36: every four_request_protocol run returns a result, whatever the
\* service does; it is never restarted, each (stage, reporter, year) unit is
\* requested by exactly one _make_request, and the run makes at most
\* 3 x 18 x |years| external calls.
C36_ProtocolReturnsResult ==
    /\ (op.name = "protocol" /\ pc = "done") => outcome = "returned"
    /\ ProtocolCost

----------------------------------------------------------------------------
(* The cache adapter on an unavailable backend, checked under SpecBackend *)

\* C37: the cache adapter never raises: with no connection or a failing
\* query the lookup returns None and the write returns False, so a
\* _make_request against an unavailable backend is never served from the
\* store, makes the live call and returns its result.
C37_CacheAdapterNeverRaises ==
    sh.use = "backend" =>
        /\ pc # "mr_raise"
        /\ (pc = "mr_ret" /\ req.resps = <<>>) => sh.state = "connected"
        /\ (pc = "mr_ret" /\ req.resps # <<>> /\ Last(req.resps) = "200") =>
              req.val # NoneVal

----------------------------------------------------------------------------
(* What reaches the cache store, checked under SpecFetch *)

\* C39: only successful responses are cached: the store starts empty and
\* changes only in the step where a fetch receives a status-200 response,
\* which writes that response's body under the key of the fetch and leaves
\* every other entry alone; a fetch that ends in failure (rate limit
\* exhausted, other status, transport error) leaves the store unchanged.
C39_OnlySuccessesAreCached ==
    [][ cache' # cache =>
          LET key == ReqKey(req) IN
          /\ pc = "mr_attempt"
          /\ pc' = "mr_ret"
          /\ req'.resps = Append(req.resps, "200")
          /\ req'.val # NoneVal
          /\ DOMAIN cache' = DOMAIN cache \cup {key}
          /\ cache'[key].response_data = JsonDumps(req'.val)
          /\ \A k \in DOMAIN cache : k # key => cache'[k] = cache[k] ]_vars

\* An entry was cached, it expired, and the fetch that asked for the same
\* key again ended in failure after three rate-limit answers: the entry is
\* still the old one.
C39_Witness ==
    /\ sh.use = "none"
    /\ op.name = "make_request"
    /\ pc = "done"
    /\ outcome = "returned"
    /\ ret = NoneVal
    /\ req.resps = << "429", "429", "429" >>
    /\ ReqKey(req) \in DOMAIN cache
    /\ cache[ReqKey(req)].expires_at <= now

====
